---- MODULE Spec2Model ----
(***************************************************************************)
(* Trend ingestion, classification, query and alert-eligibility engine of  *)
(* the TikTok trends tracker (analysis/database.py,                        *)
(* analysis/compute_analytics.py, alerts/push_alerts.py).                  *)
(*                                                                         *)
(* The SQLite tables are sequences of rows in rowid order.  Times are in   *)
(* hours: "now" is the UTC instant, datetime.now() is the naive local wall *)
(* clock now + tz, SQLite's datetime('now') is UTC.  The clock never goes  *)
(* backwards.  Growth rates are exact reduced fractions n/d: for view      *)
(* counts below 2^53 the float expression (a - b) / b * 100 compares with  *)
(* the integer cutoffs exactly as the fraction does.                       *)
(***************************************************************************)
EXTENDS Integers, Sequences, FiniteSets, TLC

VARIABLES trends, analytics_snapshots, hashtags, alerts, now, tz, okCount, last, result, cls,
          inflight, fetch, files

vars == <<trends, analytics_snapshots, hashtags, alerts, now, tz, okCount, last, result, cls,
          inflight, fetch, files>>

(***************************************************************************)
(* Bounds of the model.                                                    *)
(***************************************************************************)
MaxSnaps == 3
MaxAlerts == 2
MaxTime == 6
MaxBatch == 2

(***************************************************************************)
(* JSON values as they come out of json.load, tagged by their Python type. *)
(***************************************************************************)
JNull == [null |-> TRUE]
JNum(n) == [num |-> n]
JStr(s) == [str |-> s]
JList(l) == [list |-> l]
JObj(d) == [obj |-> d]
EmptyDict == [k \in {} |-> JNull]

IsNull(v) == "null" \in DOMAIN v
IsNum(v) == "num" \in DOMAIN v
IsStr(v) == "str" \in DOMAIN v
IsList(v) == "list" \in DOMAIN v
IsObj(v) == "obj" \in DOMAIN v

\* dict.get(key, default)
PyGet(d, k, default) == IF k \in DOMAIN d THEN d[k] ELSE default

\* Python truth value of a JSON value ("if not trend_id")
Truthy(v) ==
  IF IsNull(v) THEN FALSE
  ELSE IF IsNum(v) THEN v.num # 0
  ELSE IF IsStr(v) THEN v.str # ""
  ELSE IF IsList(v) THEN v.list # <<>>
  ELSE DOMAIN v.obj # {}

\* A value sqlite3 can bind as a statement parameter
Bindable(v) == IsNull(v) \/ IsNum(v) \/ IsStr(v)

(***************************************************************************)
(* Exact fractions for growth_rate.                                        *)
(***************************************************************************)
Abs(x) == IF x < 0 THEN -x ELSE x

RECURSIVE GCD(_, _)
GCD(a, b) == IF b = 0 THEN a ELSE GCD(b, a % b)

Frac(n, d) == LET g == GCD(Abs(n), d) IN [n |-> n \div g, d |-> d \div g]

Zero == Frac(0, 1)

\* growth_rate > cutoff, cutoff an integer
FracGt(f, c) == f.n > c * f.d

\* f > g for two fractions
FracGtFrac(f, g) == f.n * g.d > g.n * f.d

(***************************************************************************)
(* ViralityStage                                                           *)
(***************************************************************************)
New == "New"
EarlyTraction == "Early Traction"
Steady == "Steady"
Massive == "Massive"
ViralityStage == <<New, EarlyTraction, Steady, Massive>>

(***************************************************************************)
(* calculate_virality_stage                                                *)
(***************************************************************************)
\* mutant: a previous view count of 0 counts as a growth of 100 percent
GrowthRate_FromZero(view_count, historical_stats) ==
  IF historical_stats # <<>>
  THEN LET prev_views == historical_stats[Len(historical_stats)].view_count
       IN IF prev_views > 0
          THEN Frac((view_count - prev_views) * 100, prev_views)
          ELSE Frac(100, 1)
  ELSE Zero

\* mutant: the growth rate is taken against the oldest snapshot
GrowthRate_Oldest(view_count, historical_stats) ==
  IF historical_stats # <<>>
  THEN LET prev_views == historical_stats[1].view_count
       IN IF prev_views > 0
          THEN Frac((view_count - prev_views) * 100, prev_views)
          ELSE Zero
  ELSE Zero

\* mutant: the first observation of an id counts as a growth of 100 percent
GrowthRate_FirstIsFull(view_count, historical_stats) ==
  IF historical_stats # <<>>
  THEN LET prev_views == historical_stats[Len(historical_stats)].view_count
       IN IF prev_views > 0
          THEN Frac((view_count - prev_views) * 100, prev_views)
          ELSE Zero
  ELSE Frac(100, 1)

\* lines 166-173: growth rate against the last element of the history
GrowthRate(view_count, historical_stats) ==
  IF historical_stats # <<>>
  THEN LET prev_stats == historical_stats[Len(historical_stats)]
           prev_views == prev_stats.view_count
       IN IF prev_views > 0
          THEN Frac((view_count - prev_views) * 100, prev_views)
          ELSE Zero
  ELSE Zero

\* mutant: the band limits are exclusive and the cutoffs inclusive
Classify_OffByOne(view_count, growth_rate) ==
  IF view_count <= 10000 THEN New
  ELSE IF view_count <= 100000
       THEN (IF growth_rate.n >= 50 * growth_rate.d THEN EarlyTraction ELSE New)
  ELSE IF view_count <= 1000000
       THEN (IF growth_rate.n >= 20 * growth_rate.d THEN EarlyTraction ELSE Steady)
  ELSE (IF growth_rate.n >= 10 * growth_rate.d THEN EarlyTraction ELSE Massive)

\* lines 175-192: the banded classification
Classify(view_count, growth_rate) ==
  IF view_count < 10000 THEN New
  ELSE IF view_count < 100000
       THEN (IF FracGt(growth_rate, 50) THEN EarlyTraction ELSE New)
  ELSE IF view_count < 1000000
       THEN (IF FracGt(growth_rate, 20) THEN EarlyTraction ELSE Steady)
  ELSE (IF FracGt(growth_rate, 10) THEN EarlyTraction ELSE Massive)

\* mutant: the stage is decided before the growth rate is computed (with 0)
calculate_virality_stage_StageFirst(current_stats, historical_stats) ==
  LET view_count == current_stats.view_count
  IN IF ~IsNum(view_count)
     THEN [exc |-> TRUE, stage |-> New, growth_rate |-> Zero]
     ELSE [exc |-> FALSE,
           stage |-> Classify(view_count.num, Zero),
           growth_rate |-> GrowthRate(view_count.num, historical_stats)]

\* current_stats holds JSON values; arithmetic on a non-number raises TypeError
calculate_virality_stage(current_stats, historical_stats) ==
  LET view_count == current_stats.view_count
  IN IF ~IsNum(view_count)
     THEN [exc |-> TRUE, stage |-> New, growth_rate |-> Zero]
     ELSE LET growth_rate == GrowthRate(view_count.num, historical_stats)
          IN [exc |-> FALSE,
              stage |-> Classify(view_count.num, growth_rate),
              growth_rate |-> growth_rate]

(***************************************************************************)
(* get_trend_history: the snapshots of one id, ORDER BY timestamp ASC.     *)
(* SQLite returns rows of equal timestamp in rowid order.                  *)
(***************************************************************************)
RECURSIVE WhereTrendId(_, _)
WhereTrendId(s, id) ==
  IF s = <<>> THEN <<>>
  ELSE IF Head(s).trend_id = id THEN <<Head(s)>> \o WhereTrendId(Tail(s), id)
  ELSE WhereTrendId(Tail(s), id)

\* insert row r into the sorted sequence s after every row whose timestamp is <= r's
RECURSIVE InsertByTimestamp(_, _)
InsertByTimestamp(s, r) ==
  IF s = <<>> THEN <<r>>
  ELSE IF Head(s).timestamp <= r.timestamp
       THEN <<Head(s)>> \o InsertByTimestamp(Tail(s), r)
       ELSE <<r>> \o s

RECURSIVE OrderByTimestampAsc(_)
OrderByTimestampAsc(s) ==
  IF s = <<>> THEN <<>>
  ELSE InsertByTimestamp(OrderByTimestampAsc(SubSeq(s, 1, Len(s) - 1)), s[Len(s)])

\* mutant: ORDER BY timestamp DESC, rows of equal timestamp in reverse rowid order
RECURSIVE Reverse(_)
Reverse(s) == IF s = <<>> THEN <<>> ELSE Append(Reverse(Tail(s)), Head(s))

get_trend_history_Desc(snapshots, trend_id) ==
  Reverse(OrderByTimestampAsc(WhereTrendId(snapshots, trend_id)))

get_trend_history(snapshots, trend_id) ==
  OrderByTimestampAsc(WhereTrendId(snapshots, trend_id))

(***************************************************************************)
(* insert_or_update_trend.  db is the record of the three tables of the    *)
(* connection's transaction; lnow is datetime.now(); fault names the       *)
(* statement at which the store raises sqlite3.Error ("none": no storage   *)
(* error).                                                                 *)
(***************************************************************************)
Faults == {"none", "connect", "history", "select", "upsert", "snapshot", "hashtag", "commit"}

HasTrend(rows, id) == \E i \in 1..Len(rows) : rows[i].id = id

\* mutant: the UPDATE leaves virality_stage and growth_rate out of its SET list
UpdateTrend_StaleStage(rows, r) ==
  [i \in 1..Len(rows) |->
     IF rows[i].id = r.id
     THEN [r EXCEPT !.first_seen = rows[i].first_seen,
                    !.virality_stage = rows[i].virality_stage,
                    !.growth_rate = rows[i].growth_rate]
     ELSE rows[i]]

\* mutant: the UPDATE sets first_seen too
UpdateTrend_ResetsFirstSeen(rows, r) ==
  [i \in 1..Len(rows) |-> IF rows[i].id = r.id THEN r ELSE rows[i]]

\* mutant: the UPDATE without its WHERE clause
UpdateTrend_NoWhere(rows, r) ==
  [i \in 1..Len(rows) |-> [r EXCEPT !.id = rows[i].id, !.first_seen = rows[i].first_seen]]

\* UPDATE trends SET ... WHERE id = ? (first_seen is not in the SET list)
UpdateTrend(rows, r) ==
  [i \in 1..Len(rows) |->
     IF rows[i].id = r.id THEN [r EXCEPT !.first_seen = rows[i].first_seen] ELSE rows[i]]

\* mutant: the table has no primary key
InsertTrend_NoKey(rows, r) == [exc |-> FALSE, rows |-> Append(rows, r)]

\* INSERT INTO trends; id is the PRIMARY KEY
InsertTrend(rows, r) ==
  IF HasTrend(rows, r.id)
  THEN [exc |-> TRUE, rows |-> rows]
  ELSE [exc |-> FALSE, rows |-> Append(rows, r)]

\* mutant: no existence check and no key, every call inserts
UpsertTrend_AlwaysInsert(rows, r, existing) == [exc |-> FALSE, rows |-> Append(rows, r)]

\* lines 218-274: UPDATE when the SELECT found the id, INSERT otherwise
UpsertTrend(rows, r, existing) ==
  IF existing THEN [exc |-> FALSE, rows |-> UpdateTrend(rows, r)]
  ELSE InsertTrend(rows, r)

\* mutant: one snapshot row per id, overwritten in place (INSERT OR REPLACE
\* on trend_id)
AppendSnapshot_Replace(rows, snap) ==
  IF \E i \in 1..Len(rows) : rows[i].trend_id = snap.trend_id
  THEN [i \in 1..Len(rows) |-> IF rows[i].trend_id = snap.trend_id THEN snap ELSE rows[i]]
  ELSE Append(rows, snap)

\* mutant: a snapshot equal in content to the last row is not stored again
AppendSnapshot_Dedup(rows, snap) ==
  IF rows # <<>> /\ rows[Len(rows)].trend_id = snap.trend_id
       /\ rows[Len(rows)].view_count = snap.view_count
  THEN rows
  ELSE Append(rows, snap)

\* lines 277-286: INSERT INTO analytics_snapshots
AppendSnapshot(rows, snap) == Append(rows, snap)

\* mutant: a hashtag the id already has is not stored again (INSERT OR IGNORE
\* on a UNIQUE (hashtag, trend_id))
RECURSIVE InsertHashtags_Dedup(_, _, _, _, _)
InsertHashtags_Dedup(rows, tags, trend_id, lnow, fault) ==
  IF tags = <<>> THEN [exc |-> FALSE, rows |-> rows]
  ELSE IF fault = "hashtag" \/ ~Bindable(Head(tags))
       THEN [exc |-> TRUE, rows |-> rows]
       ELSE InsertHashtags_Dedup(
              IF \E k \in 1..Len(rows) :
                   rows[k].hashtag = Head(tags) /\ rows[k].trend_id = trend_id
              THEN rows
              ELSE Append(rows, [hashtag |-> Head(tags), trend_id |-> trend_id,
                                 timestamp |-> lnow]),
              Tail(tags), trend_id, lnow, "none")

\* lines 289-293: one INSERT per element, stopping at the first that raises
RECURSIVE InsertHashtags(_, _, _, _, _)
InsertHashtags(rows, tags, trend_id, lnow, fault) ==
  IF tags = <<>> THEN [exc |-> FALSE, rows |-> rows]
  ELSE IF fault = "hashtag" \/ ~Bindable(Head(tags))
       THEN [exc |-> TRUE, rows |-> rows]
       ELSE InsertHashtags(
              Append(rows, [hashtag |-> Head(tags), trend_id |-> trend_id, timestamp |-> lnow]),
              Tail(tags), trend_id, lnow, "none")

\* mutant: the writes made before the exception stay (autocommit)
ConnExit_NoRollback(before, work, exc) == work

\* sqlite3.Connection.__exit__: commit when the block ended normally,
\* roll back to the state before the transaction when it raised
ConnExit(before, work, exc) == IF exc THEN before ELSE work

\* Text of a JSON string bound to a TEXT column ('' default)
Text(v) == IF IsStr(v) THEN v.str ELSE ""

\* Number bound to an INTEGER column (0 default)
Count(v) == IF IsNum(v) THEN v.num ELSE 0

\* the value of a one-element set: binds the result of a call once
The(S) == CHOOSE x \in S : TRUE

\* an exception inside "with conn", the tables as written so far being w
Raise(w) == [db |-> w, exc |-> TRUE]

\* the values bound to the UPDATE / INSERT of trends (lines 232-246, 258-273)
TrendRow(d, trend_id, lnow, current_stats, c, author, music) ==
  [id |-> trend_id.str,
   title |-> Text(PyGet(d, "title", JStr(""))),
   author |-> Text(PyGet(author.obj, "uniqueId", JStr(""))),
   description |-> Text(PyGet(d, "desc", JStr(""))),
   source |-> Text(PyGet(d, "source", JStr(""))),
   view_count |-> Count(current_stats.view_count),
   like_count |-> Count(current_stats.like_count),
   share_count |-> Count(current_stats.share_count),
   comment_count |-> Count(current_stats.comment_count),
   music_id |-> PyGet(music.obj, "id", JNull),
   virality_stage |-> c.stage,
   growth_rate |-> c.growth_rate,
   first_seen |-> lnow,
   last_updated |-> lnow]

\* the values bound to the INSERT of analytics_snapshots (lines 282-286)
SnapshotRow(trend_id, lnow, current_stats, c) ==
  [trend_id |-> trend_id.str,
   timestamp |-> lnow,
   view_count |-> Count(current_stats.view_count),
   like_count |-> Count(current_stats.like_count),
   share_count |-> Count(current_stats.share_count),
   comment_count |-> Count(current_stats.comment_count),
   growth_rate |-> c.growth_rate,
   virality_stage |-> c.stage]

\* lines 220-295: the statements after the SELECT that found existing
WriteRows(db, d, trend_id, fault, lnow, current_stats, c, existing, author, music, tags) ==
  LET row == TrendRow(d, trend_id, lnow, current_stats, c, author, music)
      snap == SnapshotRow(trend_id, lnow, current_stats, c)
  IN The({IF fault = "upsert" \/ up.exc THEN Raise(db)
          ELSE IF fault = "snapshot" THEN Raise([db EXCEPT !.trends = up.rows])
          ELSE IF ~IsList(tags)
               THEN Raise([db EXCEPT !.trends = up.rows,
                                     !.analytics_snapshots = AppendSnapshot(@, snap)])
          ELSE The({[db |-> [trends |-> up.rows,
                             analytics_snapshots |-> AppendSnapshot(db.analytics_snapshots, snap),
                             hashtags |-> h.rows],
                     exc |-> h.exc \/ fault = "commit"] :
                      h \in {InsertHashtags(db.hashtags, tags.list, trend_id.str, lnow, fault)}}) :
            up \in {UpsertTrend(db.trends, row, existing)}})

\* lines 206-212
CurrentStats(stats) ==
  [view_count |-> PyGet(stats.obj, "playCount", JNum(0)),
   like_count |-> PyGet(stats.obj, "diggCount", JNum(0)),
   share_count |-> PyGet(stats.obj, "shareCount", JNum(0)),
   comment_count |-> PyGet(stats.obj, "commentCount", JNum(0))]

\* lines 202-295, inside "with conn": [db: the tables as written so far, exc: an exception was raised]
Transaction(db, d, trend_id, fault, lnow) ==
  LET stats == PyGet(d, "stats", JObj(EmptyDict))
      author == PyGet(d, "author", JObj(EmptyDict))
      music == PyGet(d, "music", JObj(EmptyDict))
      tags == PyGet(d, "hashtags", JList(<<>>))
  IN IF fault = "history" \/ ~IsStr(trend_id) THEN Raise(db)
     ELSE IF ~IsObj(stats) THEN Raise(db)
     ELSE
       LET current_stats == CurrentStats(stats)
       IN The({IF c.exc \/ fault = "select" THEN Raise(db)
               ELSE IF ~IsObj(author) \/ ~IsObj(music) THEN Raise(db)
               ELSE WriteRows(db, d, trend_id, fault, lnow, current_stats, c,
                              HasTrend(db.trends, trend_id.str), author, music, tags) :
                 c \in {calculate_virality_stage(
                          current_stats,
                          get_trend_history(db.analytics_snapshots, trend_id.str))}})

\* ret: "true" / "false" are the returned booleans, "raise" is an exception
\* leaving the method (the except clause formats trend_id, which is unbound
\* when the error came before line 198).  partial: writes had been made
\* when the exception was raised.
insert_or_update_trend(db, trend_data, fault, lnow) ==
  IF fault = "connect" \/ ~IsObj(trend_data)
  THEN [db |-> db, ret |-> "raise", partial |-> FALSE]
  ELSE LET trend_id == PyGet(trend_data.obj, "id", JNull)
       IN IF ~Truthy(trend_id)
          THEN [db |-> db, ret |-> "false", partial |-> FALSE]
          ELSE The({[db |-> ConnExit(db, t.db, t.exc),
                     ret |-> IF t.exc THEN "false" ELSE "true",
                     partial |-> t.exc /\ t.db # db] :
                      t \in {Transaction(db, trend_data.obj, trend_id, fault, lnow)}})

(***************************************************************************)
(* TrendsAnalytics.process_trending_items_file: the loop over data['items']*)
(* An exception leaving insert_or_update_trend ends the loop and is caught *)
(* at line 42, where the method returns 0.                                 *)
(***************************************************************************)
\* lines 35-37.  k: index of the item at which the store fault strikes (0: none).
\* Result: the tables, processed_count, the number of calls made, whether a
\* call raised, and the successful calls per id.
RECURSIVE RunItems(_, _, _, _, _, _)
RunItems(acc, items, k, faultAt, fault, lnow) ==
  IF k > Len(items) THEN acc
  ELSE The(
         {IF r.ret = "raise"
          THEN [acc EXCEPT !.attempted = @ + 1, !.raised = TRUE]
          ELSE RunItems(
                 [acc EXCEPT !.db = r.db,
                             !.attempted = @ + 1,
                             !.processed_count = IF r.ret = "true" THEN @ + 1 ELSE @,
                             !.ok = IF r.ret = "true"
                                    THEN [@ EXCEPT ![items[k].obj.id.str] = @ + 1] ELSE @],
                 items, k + 1, faultAt, fault, lnow) :
            r \in {insert_or_update_trend(acc.db, items[k],
                                          IF k = faultAt THEN fault ELSE "none", lnow)}})

\* [run: what the loop did, ret: the returned count, caught: the except clause
\* of line 42 handled an exception (every Exception is handled there)]
process_trending_items_file(db, data, faultAt, fault, lnow, ok0) ==
  LET start == [db |-> db, processed_count |-> 0, attempted |-> 0, raised |-> FALSE, ok |-> ok0]
  IN IF ~IsObj(data) \/ "items" \notin DOMAIN data.obj \/ ~IsList(data.obj.items)
     THEN [run |-> start, ret |-> 0, caught |-> FALSE, items |-> 0]
     ELSE The(
            {[run |-> run,
              ret |-> IF run.raised THEN 0 ELSE run.processed_count,
              caught |-> run.raised,
              items |-> Len(data.obj.items.list)] :
               run \in {RunItems(start, data.obj.items.list, 1, faultAt, fault, lnow)}})

(***************************************************************************)
(* Query layer                                                             *)
(***************************************************************************)
\* insert r into s, sorted by growth_rate descending, after the rows that are >= r
RECURSIVE InsertByGrowthDesc(_, _)
InsertByGrowthDesc(s, r) ==
  IF s = <<>> THEN <<r>>
  ELSE IF FracGtFrac(r.growth_rate, Head(s).growth_rate)
       THEN <<r>> \o s
       ELSE <<Head(s)>> \o InsertByGrowthDesc(Tail(s), r)

\* mutant: the WHERE clause without the stage
IsBreakout_AnyStage(r, cutoff_time, min_growth_rate) ==
  /\ r.last_updated > cutoff_time
  /\ FracGt(r.growth_rate, min_growth_rate)

\* WHERE last_updated > ? AND growth_rate > ? AND virality_stage = ?
IsBreakout(r, cutoff_time, min_growth_rate) ==
  /\ r.last_updated > cutoff_time
  /\ FracGt(r.growth_rate, min_growth_rate)
  /\ r.virality_stage = EarlyTraction

\* SELECT * FROM trends WHERE last_updated > ? AND growth_rate > ? AND
\* virality_stage = 'Early Traction' ORDER BY growth_rate DESC
RECURSIVE SelectBreakouts(_, _, _)
SelectBreakouts(rows, cutoff_time, min_growth_rate) ==
  IF rows = <<>> THEN <<>>
  ELSE LET r == rows[Len(rows)]
           rest == SelectBreakouts(SubSeq(rows, 1, Len(rows) - 1), cutoff_time, min_growth_rate)
       IN IF IsBreakout(r, cutoff_time, min_growth_rate)
          THEN InsertByGrowthDesc(rest, r)
          ELSE rest

\* lnow is datetime.now()
get_breakout_trends(rows, lnow, hours, min_growth_rate) ==
  SelectBreakouts(rows, lnow - hours, min_growth_rate)

\* insert r into s, sorted by last_updated descending, after the rows that are >= r
RECURSIVE InsertByLastUpdatedDesc(_, _)
InsertByLastUpdatedDesc(s, r) ==
  IF s = <<>> THEN <<r>>
  ELSE IF r.last_updated > Head(s).last_updated
       THEN <<r>> \o s
       ELSE <<Head(s)>> \o InsertByLastUpdatedDesc(Tail(s), r)

\* mutant: the SELECT without ORDER BY (rowid order)
SelectByStage_Unordered(rows, stage) ==
  SelectSeq(rows, LAMBDA r : r.virality_stage = stage)

\* SELECT * FROM trends WHERE virality_stage = ? ORDER BY last_updated DESC
RECURSIVE SelectByStage(_, _)
SelectByStage(rows, stage) ==
  IF rows = <<>> THEN <<>>
  ELSE LET r == rows[Len(rows)]
           rest == SelectByStage(SubSeq(rows, 1, Len(rows) - 1), stage)
       IN IF r.virality_stage = stage THEN InsertByLastUpdatedDesc(rest, r) ELSE rest

\* ... LIMIT ?
get_trending_by_stage(rows, stage, limit) ==
  LET found == SelectByStage(rows, stage)
  IN IF Len(found) <= limit THEN found ELSE SubSeq(found, 1, limit)

\* SELECT COUNT(*) FROM trends WHERE virality_stage = ?
CountByStage(rows, stage) ==
  Cardinality({i \in 1..Len(rows) : rows[i].virality_stage = stage})

\* sum(stage_counts.values()), the stages in the order of the enumeration
RECURSIVE SumValues(_, _)
SumValues(stage_counts, stages) ==
  IF stages = <<>> THEN 0
  ELSE stage_counts[Head(stages)] + SumValues(stage_counts, Tail(stages))

\* SELECT hashtag, COUNT(*) FROM hashtags WHERE timestamp > ? GROUP BY hashtag
\* (the order of the groups, ORDER BY usage_count DESC LIMIT 10, is left out:
\* the inputs have fewer than 10 hashtags)
TopHashtags(rows, recent_cutoff) ==
  {[hashtag |-> h,
    usage_count |-> Cardinality({i \in 1..Len(rows) :
                                   rows[i].hashtag = h /\ rows[i].timestamp > recent_cutoff})] :
     h \in {rows[i].hashtag : i \in {j \in 1..Len(rows) : rows[j].timestamp > recent_cutoff}}}

\* mutant: total_trends counts the snapshot rows
get_analytics_summary_CountsSnapshots(db, lnow) ==
  [stage_counts |-> [stage \in {ViralityStage[i] : i \in 1..Len(ViralityStage)} |->
                       CountByStage(db.trends, stage)],
   recent_trends_24h |-> Cardinality({i \in 1..Len(db.trends) :
                                        db.trends[i].last_updated > lnow - 24}),
   top_hashtags |-> TopHashtags(db.hashtags, lnow - 24),
   total_trends |-> Len(db.analytics_snapshots)]

\* the statements of lines 346-376 with no writer between them (SummaryCount,
\* SummaryRecent and SummaryReturn are the statements one at a time)
get_analytics_summary(db, lnow) ==
  LET stage_counts == [stage \in {ViralityStage[i] : i \in 1..Len(ViralityStage)} |->
                         CountByStage(db.trends, stage)]
  IN [stage_counts |-> stage_counts,
      recent_trends_24h |-> Cardinality({i \in 1..Len(db.trends) :
                                           db.trends[i].last_updated > lnow - 24}),
      top_hashtags |-> TopHashtags(db.hashtags, lnow - 24),
      total_trends |-> SumValues(stage_counts, ViralityStage)]

(***************************************************************************)
(* AlertManager                                                            *)
(***************************************************************************)
\* The window of "datetime('now', '-6 hours')"
SuppressionHours == 6

\* SELECT COUNT(*) FROM alerts WHERE trend_id = ? AND
\* sent_at > datetime('now', '-6 hours') AND success = 1.
\* sent_at holds the local wall clock of log_alert; utcnow is SQLite's 'now'.
recent_alerts(log, trend_id, utcnow) ==
  Cardinality({i \in 1..Len(log) :
                 /\ log[i].trend_id = trend_id
                 /\ log[i].sent_at > utcnow - SuppressionHours
                 /\ log[i].success})

RECURSIVE FilterNew(_, _, _)
FilterNew(breakout_trends, log, utcnow) ==
  IF breakout_trends = <<>> THEN <<>>
  ELSE IF recent_alerts(log, Head(breakout_trends).id, utcnow) = 0
       THEN <<Head(breakout_trends)>> \o FilterNew(Tail(breakout_trends), log, utcnow)
       ELSE FilterNew(Tail(breakout_trends), log, utcnow)

check_for_breakout_trends(rows, log, lnow, utcnow, hours, min_growth_rate) ==
  FilterNew(get_breakout_trends(rows, lnow, hours, min_growth_rate), log, utcnow)

\* INSERT INTO alerts; a storage error is swallowed (line 247).  error: the
\* message carries " - Error: ..." (the callers pass str(e) on failure only)
log_alert(log, trend_id, platform, success, lnow, storeFails) ==
  IF storeFails THEN log
  ELSE Append(log, [trend_id |-> trend_id, platform |-> platform,
                    sent_at |-> lnow, success |-> success, error |-> ~success])

\* send_discord_alert / send_slack_alert.  outcome: "off" (webhook not
\* configured), "ok" (the POST succeeded) or "fail" (the POST raised).
send_alert(log, trend_id, platform, outcome, lnow, storeFails) ==
  IF outcome = "off" THEN [log |-> log, ret |-> FALSE]
  ELSE [log |-> log_alert(log, trend_id, platform, outcome = "ok", lnow, storeFails),
        ret |-> outcome = "ok"]

\* lines 279-288: both channels for each new breakout.  attempted: the POSTs
\* made, delivered: the calls that returned True, tried: the ids both send
\* functions were called for.
RECURSIVE SendAll(_, _, _, _, _, _)
SendAll(acc, new_breakouts, discord, slack, lnow, storeFails) ==
  IF new_breakouts = <<>> THEN acc
  ELSE LET id == Head(new_breakouts).id
           d == send_alert(acc.log, id, "discord", discord[id], lnow, storeFails)
           sl == send_alert(d.log, id, "slack", slack[id], lnow, storeFails)
       IN SendAll([log |-> sl.log,
                   alerts_sent |-> IF d.ret \/ sl.ret THEN acc.alerts_sent + 1
                                   ELSE acc.alerts_sent,
                   attempted |-> acc.attempted + (IF discord[id] # "off" THEN 1 ELSE 0)
                                               + (IF slack[id] # "off" THEN 1 ELSE 0),
                   delivered |-> acc.delivered + (IF d.ret THEN 1 ELSE 0)
                                               + (IF sl.ret THEN 1 ELSE 0),
                   tried |-> acc.tried \cup {id}],
                  Tail(new_breakouts), discord, slack, lnow, storeFails)

send_breakout_alerts(rows, log, lnow, utcnow, hours, min_growth_rate, discord, slack, storeFails) ==
  SendAll([log |-> log, alerts_sent |-> 0, attempted |-> 0, delivered |-> 0, tried |-> {}],
          check_for_breakout_trends(rows, log, lnow, utcnow, hours, min_growth_rate),
          discord, slack, lnow, storeFails)

(***************************************************************************)
(* Inputs                                                                  *)
(***************************************************************************)
Ids == {"a", "b"}

\* an item as extract_trending_items writes it, reduced to id and play count
Item(id, views) == JObj([id |-> JStr(id), stats |-> JObj([playCount |-> JNum(views)])])

\* only the id
Bare(id) == JObj([id |-> JStr(id)])

\* every field present
Full ==
  JObj([id |-> JStr("a"), title |-> JStr("T"), desc |-> JStr("D"),
        author |-> JObj([uniqueId |-> JStr("u")]),
        stats |-> JObj([playCount |-> JNum(80000), diggCount |-> JNum(7),
                        shareCount |-> JNum(2), commentCount |-> JNum(1)]),
        music |-> JObj([id |-> JStr("m")]),
        hashtags |-> JList(<<JStr("x"), JStr("y"), JStr("x")>>),
        timestamp |-> JStr("t"), source |-> JStr("s")])

GoodPayloads == {Item("a", 50000), Item("a", 80000), Full, Bare("b")}

NoId == JObj([stats |-> JObj([playCount |-> JNum(80000)])])
EmptyId == JObj([id |-> JStr(""), stats |-> JObj([playCount |-> JNum(80000)])])
NullId == JObj([id |-> JNull])
NonDict == JStr("junk")
NullStats == JObj([id |-> JStr("a"), stats |-> JNull])
NullPlayCount == JObj([id |-> JStr("a"), stats |-> JObj([playCount |-> JNull])])
NullMusic == JObj([id |-> JStr("a"), stats |-> JObj([playCount |-> JNum(80000)]), music |-> JNull])
NullHashtags == JObj([id |-> JStr("a"), stats |-> JObj([playCount |-> JNum(80000)]),
                      hashtags |-> JNull])
BadHashtag == JObj([id |-> JStr("a"), stats |-> JObj([playCount |-> JNum(80000)]),
                    hashtags |-> JList(<<JStr("x"), JObj(EmptyDict)>>)])

NoIdPayloads == {NoId, EmptyId, NullId}
IllTypedPayloads == {NullStats, NullPlayCount, NullMusic, NullHashtags, BadHashtag}
Payloads == GoodPayloads \cup NoIdPayloads \cup IllTypedPayloads \cup {NonDict}

\* the calls of insert_or_update_trend: every payload with the store working,
\* and the payload that has every field with a storage error at each statement
Calls ==
  (Payloads \X {"none"}) \cup ({Full} \X (Faults \ {"none"}))

\* the items of the files
BatchItems == {Item("a", 80000), NoId, NonDict}

RECURSIVE SeqsUpTo(_, _)
SeqsUpTo(S, n) ==
  IF n = 0 THEN {<<>>}
  ELSE LET shorter == SeqsUpTo(S, n - 1)
       IN shorter \cup {Append(q, x) : q \in shorter, x \in S}

Files ==
  {JObj([items |-> JList(q)]) : q \in SeqsUpTo(BatchItems, MaxBatch)}
    \cup {JObj([count |-> JNum(0)]), JObj([items |-> JNull]), JNull}

\* the items ingested between queries: view counts in every band, with a
\* growth rate above the band's cutoff from one to the next
QueryItems == {Item("a", 50000), Item("a", 80000), Item("a", 500000),
               Item("b", 2000000), Item("b", 2400000)}

\* view counts of one id in consecutive ingestions, ending in each pair of stages
StagePaths ==
  {<<0, 5000>>, <<50000, 80000>>, <<0, 500000>>, <<0, 1000000>>,
   <<50000, 80000, 80000>>, <<50000, 80000, 500000>>, <<80000, 500000, 500000>>,
   <<80000, 1000000, 1000000>>,
   <<500000, 5000>>, <<500000, 1000000>>, <<500000, 500000>>, <<950000, 1000000>>,
   <<1000000, 5000>>, <<1000000, 2000000>>, <<1000000, 500000>>, <<1000000, 1000000>>}

\* the view counts of StagePaths
StageViews == UNION {{q[i] : i \in 1..Len(q)} : q \in StagePaths}

\* an id that no other input uses
FreshId == "c"

\* insert_or_update_trend for one id with each view count of q in turn
RECURSIVE IngestViews(_, _, _, _)
IngestViews(db, id, q, lnow) ==
  IF q = <<>> THEN db
  ELSE IngestViews(The({insert_or_update_trend(db, Item(id, Head(q)), "none", lnow).db}),
                   id, Tail(q), lnow)

\* the record's stage after the last but one and after the last ingestion of
\* q for a new id, starting from the tables db
StagePair(db, q, lnow) ==
  LET after == IngestViews(db, FreshId, q, lnow)
      n == Len(after.analytics_snapshots)
  IN <<after.analytics_snapshots[n - 1].virality_stage,
       after.trends[Len(after.trends)].virality_stage>>

\* the stage changes that consecutive ingestions of StagePaths produce
ReachedTransitions(db, lnow) == {StagePair(db, q, lnow) : q \in StagePaths}

\* the items ingested between alert runs
AlertItems == {Item("a", 50000), Item("a", 80000)}

\* UTC offsets of the local time zone, in hours
TzOffsets == {-8, 0}
\* hours that pass between two calls
TickSteps == {3}
\* (hours, min_growth_rate) of the queries; the first three are the callers' (compute_analytics.py:104-106)
QueryArgs == {<<1, 200>>, <<6, 100>>, <<24, 50>>, <<24, 5>>, <<6, -1>>}
\* (hours, min_growth_rate) of the alert runs (push_alerts.py:323, dashboard/app.py:71)
AlertArgs == {<<1, 150>>, <<24, 50>>}
Outcomes == {"off", "ok", "fail"}

(***************************************************************************)
(* State                                                                   *)
(***************************************************************************)
DB == [trends |-> trends, analytics_snapshots |-> analytics_snapshots, hashtags |-> hashtags]

\* datetime.now(): the naive local wall clock
LocalNow == now + tz

\* the last call: what it returned and what the model knows about its input
NoCall == [op |-> "init", ret |-> "none", partial |-> FALSE, fault |-> "none", hasId |-> FALSE,
           wellFormed |-> FALSE, items |-> 0, attempted |-> 0, succeeded |-> 0, count |-> 0,
           caught |-> FALSE, id |-> "", tags |-> <<>>, tried |-> {}, hours |-> 0,
           min_growth_rate |-> 0]

\* the rows a query returned, with its arguments
NoResult == [op |-> "none", hours |-> 0, min_growth_rate |-> 0, rows |-> <<>>]

NoCls == [view_count |-> 0, growth_rate |-> Zero, stage |-> New]

\* the processes that call insert_or_update_trend on the same database file
\* fetch_endpoint has not been called
NoFetch == [pc |-> "idle", retries |-> 0, attempt |-> 0, sleeps |-> 0, waited |-> 0,
            ret |-> "none"]

\* the files on disk: the timestamped trending_items_*.json of the data
\* directory, by timestamp, and trending_items.json of the working directory
NoFiles == [snapshots |-> <<>>, latest |-> JNull]

Procs == {"p1", "p2"}

\* a process that is not inside a call
Idle == [pc |-> "idle"]

Init ==
  /\ trends = <<>>
  /\ analytics_snapshots = <<>>
  /\ hashtags = <<>>
  /\ alerts = <<>>
  /\ now = 0
  /\ tz \in TzOffsets
  /\ okCount = [i \in Ids |-> 0]
  /\ last = NoCall
  /\ result = NoResult
  /\ cls = NoCls
  /\ inflight = [p \in Procs |-> Idle]
  /\ fetch = NoFetch
  /\ files = NoFiles

\* time passes
Tick ==
  /\ \E d \in TickSteps : now + d <= MaxTime /\ now' = now + d
  /\ result' = NoResult
  /\ UNCHANGED <<fetch, files, inflight, trends, analytics_snapshots, hashtags, alerts, tz, okCount, last, cls>>

HasId(item) == IsObj(item) /\ Truthy(PyGet(item.obj, "id", JNull))

\* the elements of the hashtags list of a payload
TagsOf(item) ==
  IF IsObj(item) /\ IsList(PyGet(item.obj, "hashtags", JList(<<>>)))
  THEN PyGet(item.obj, "hashtags", JList(<<>>)).list ELSE <<>>

\* the id of a payload ("" when it has none)
IdOf(item) == IF HasId(item) /\ IsStr(item.obj.id) THEN item.obj.id.str ELSE ""

\* one call of TrendsDatabase.insert_or_update_trend
Ingest(item, fault) ==
  /\ Len(analytics_snapshots) < MaxSnaps
  /\ \E r \in {insert_or_update_trend(DB, item, fault, LocalNow)} :
        /\ trends' = r.db.trends
        /\ analytics_snapshots' = r.db.analytics_snapshots
        /\ hashtags' = r.db.hashtags
        /\ okCount' = IF r.ret = "true"
                      THEN [okCount EXCEPT ![item.obj.id.str] = @ + 1]
                      ELSE okCount
        /\ last' = [NoCall EXCEPT !.op = "ingest", !.ret = r.ret, !.partial = r.partial,
                                  !.fault = fault, !.hasId = HasId(item), !.id = IdOf(item),
                                  !.tags = TagsOf(item),
                                  !.wellFormed = (item \in GoodPayloads)]
  /\ result' = NoResult
  /\ UNCHANGED <<fetch, files, inflight, alerts, now, tz, cls>>

\* the number of items of a file (0 when it has no list of items)
FileLen(data) ==
  IF IsObj(data) /\ "items" \in DOMAIN data.obj /\ IsList(data.obj.items)
  THEN Len(data.obj.items.list) ELSE 0

\* one call of TrendsAnalytics.process_trending_items_file
ProcessFile(data, faultAt, fault) ==
  /\ Len(analytics_snapshots) + FileLen(data) <= MaxSnaps
  /\ \E p \in {process_trending_items_file(DB, data, faultAt, fault, LocalNow, okCount)} :
        /\ trends' = p.run.db.trends
        /\ analytics_snapshots' = p.run.db.analytics_snapshots
        /\ hashtags' = p.run.db.hashtags
        /\ okCount' = p.run.ok
        /\ last' = [NoCall EXCEPT !.op = "process_file",
                                  !.ret = IF p.run.raised THEN "raise" ELSE "returned",
                                  !.fault = IF faultAt = 0 THEN "none" ELSE fault,
                                  !.items = p.items, !.attempted = p.run.attempted,
                                  !.succeeded = p.run.processed_count, !.count = p.ret,
                                  !.caught = p.caught]
  /\ result' = NoResult
  /\ UNCHANGED <<fetch, files, inflight, alerts, now, tz, cls>>

\* one call of TrendsDatabase.get_breakout_trends
GetBreakouts(hours, min_growth_rate) ==
  /\ result' = [op |-> "get_breakout_trends", hours |-> hours,
                min_growth_rate |-> min_growth_rate,
                rows |-> get_breakout_trends(trends, LocalNow, hours, min_growth_rate)]
  /\ UNCHANGED <<fetch, files, inflight, trends, analytics_snapshots, hashtags, alerts, now, tz, okCount, last, cls>>

\* one call of TrendsDatabase.get_analytics_summary
GetSummary ==
  /\ result' = [op |-> "get_analytics_summary", hours |-> 24, min_growth_rate |-> 0,
                rows |-> <<>>, summary |-> get_analytics_summary(DB, LocalNow)]
  /\ UNCHANGED <<fetch, files, inflight, trends, analytics_snapshots, hashtags, alerts, now, tz, okCount, last, cls>>

\* one call of AlertManager.check_for_breakout_trends
CheckForBreakouts(hours, min_growth_rate) ==
  /\ result' = [op |-> "check_for_breakout_trends", hours |-> hours,
                min_growth_rate |-> min_growth_rate,
                rows |-> check_for_breakout_trends(trends, alerts, LocalNow, now,
                                                   hours, min_growth_rate)]
  /\ UNCHANGED <<fetch, files, inflight, trends, analytics_snapshots, hashtags, alerts, now, tz, okCount, last, cls>>

\* one run of AlertManager.send_breakout_alerts
SendBreakoutAlerts(hours, min_growth_rate, discord, slack, storeFails) ==
  /\ \E r \in {send_breakout_alerts(trends, alerts, LocalNow, now, hours, min_growth_rate,
                                     [i \in Ids |-> discord], [i \in Ids |-> slack], storeFails)} :
        /\ Len(r.log) <= MaxAlerts
        /\ alerts' = r.log
        /\ last' = [NoCall EXCEPT !.op = "send_breakout_alerts", !.ret = "returned",
                                  !.fault = IF storeFails THEN "store" ELSE "none",
                                  !.attempted = r.attempted, !.succeeded = r.delivered,
                                  !.tried = r.tried, !.hours = hours,
                                  !.min_growth_rate = min_growth_rate,
                                  !.count = r.alerts_sent]
  /\ result' = NoResult
  /\ UNCHANGED <<fetch, files, inflight, trends, analytics_snapshots, hashtags, now, tz, okCount, cls>>

(***************************************************************************)
(* Ingestion: single calls and files, with storage errors.                 *)
(***************************************************************************)
Next ==
  \/ Tick
  \/ \E c \in Calls : Ingest(c[1], c[2])
  \/ \E data \in Files : ProcessFile(data, 0, "none")
  \/ \E data \in Files : FileLen(data) >= 1 /\ ProcessFile(data, 1, "connect")

Spec == Init /\ [][Next]_vars

(***************************************************************************)
(* Ingestion and the breakout query.                                       *)
(***************************************************************************)
NextQuery ==
  \/ Tick
  \/ \E item \in QueryItems : Ingest(item, "none")
  \/ \E a \in QueryArgs : GetBreakouts(a[1], a[2])
  \/ GetSummary

SpecQuery == Init /\ [][NextQuery]_vars

(***************************************************************************)
(* Ingestion and the alert runs.                                           *)
(***************************************************************************)
NextAlerts ==
  \/ Tick
  \/ \E item \in AlertItems : Ingest(item, "none")
  \/ \E a \in AlertArgs : CheckForBreakouts(a[1], a[2])
  \/ \E a \in AlertArgs, discord \in Outcomes, slack \in Outcomes, storeFails \in BOOLEAN :
       SendBreakoutAlerts(a[1], a[2], discord, slack, storeFails)

SpecAlerts == Init /\ [][NextAlerts]_vars

(***************************************************************************)
(* The classifier on its own: calculate_virality_stage applied to view     *)
(* counts and growth rates around every band limit and cutoff.             *)
(***************************************************************************)
ClsViews == {0, 5000, 9999, 10000, 50000, 99999, 100000, 500000, 999999, 1000000, 2000000}

ClsGrowths == {Frac(-50, 1), Zero, Frac(5, 1), Frac(10, 1), Frac(101, 10), Frac(15, 1), Frac(20, 1),
               Frac(201, 10), Frac(25, 1), Frac(50, 1), Frac(501, 10), Frac(60, 1)}

\* (current, previous) view counts whose growth rate is exactly a cutoff
ClsPairs == {<<15000, 10000>>, <<120000, 100000>>, <<1100000, 1000000>>,
             <<50000, 31250>>, <<500000, 400000>>, <<2000000, 0>>}

\* lines 175-192 on a view count and a growth rate
ClassifyStage(view_count, growth_rate) ==
  /\ cls' = [view_count |-> view_count, growth_rate |-> growth_rate,
             stage |-> Classify(view_count, growth_rate)]
  /\ UNCHANGED <<fetch, files, inflight, trends, analytics_snapshots, hashtags, alerts, now, tz, okCount, last, result>>

\* the whole method on a current view count and a one-row history
CalculateViralityStage(view_count, prev_views) ==
  /\ \E c \in {calculate_virality_stage([view_count |-> JNum(view_count)],
                                        <<[view_count |-> prev_views]>>)} :
        cls' = [view_count |-> view_count, growth_rate |-> c.growth_rate, stage |-> c.stage]
  /\ UNCHANGED <<fetch, files, inflight, trends, analytics_snapshots, hashtags, alerts, now, tz, okCount, last, result>>

NextClassifier ==
  \/ \E v \in ClsViews, g \in ClsGrowths : ClassifyStage(v, g)
  \/ \E p \in ClsPairs : CalculateViralityStage(p[1], p[2])

SpecClassifier == Init /\ [][NextClassifier]_vars

(***************************************************************************)
(* Consecutive ingestions of one id, with view counts in every band.       *)
(***************************************************************************)
NextStages == \E v \in StageViews : Ingest(Item("a", v), "none")

SpecStages == Init /\ [][NextStages]_vars

(***************************************************************************)
(* Several processes on one database file.  Every call opens a connection  *)
(* of its own (get_connection).  sqlite3 opens a transaction before the    *)
(* first INSERT / UPDATE of a connection and not before: the history       *)
(* lookup of line 203 (made on a second connection) and the SELECT of line *)
(* 218 run in autocommit, and other processes may commit between them and  *)
(* the UPDATE / INSERT.  From the first write to the commit the process    *)
(* holds the write lock of the file.                                       *)
(***************************************************************************)
Tagged == JObj([id |-> JStr("a"), stats |-> JObj([playCount |-> JNum(80000)]),
                hashtags |-> JList(<<JStr("x")>>)])

ConcItems == {Item("a", 50000), Tagged, BadHashtag}

\* the stages the records of ConcItems can have
ConcStages == {New, EarlyTraction}

\* the processes inside insert_or_update_trend
Ingesting == {p \in Procs : inflight[p].pc \in {"looked", "selected", "written"}}

\* the process that holds the write lock
Writers == {p \in Procs : inflight[p].pc = "written"}

\* the tables as the open write transaction has them
Uncommitted == IF Writers = {} THEN DB ELSE inflight[The(Writers)].work

\* mutant: a statement sees the writes of the open transaction of another
\* connection (PRAGMA read_uncommitted on a shared cache)
ReadView_Dirty(committed, uncommitted) == uncommitted

\* the tables a statement of a connection without a transaction reads
ReadView(committed, uncommitted) == committed

\* lines 198-215: the id, the statistics, the history lookup, the classification
Lookup(p, item) ==
  /\ inflight[p].pc = "idle"
  /\ Len(analytics_snapshots) + Cardinality(Ingesting) < MaxSnaps
  /\ \E c \in {calculate_virality_stage(
                 CurrentStats(PyGet(item.obj, "stats", JObj(EmptyDict))),
                 get_trend_history(ReadView(DB, Uncommitted).analytics_snapshots,
                                   item.obj.id.str))} :
        inflight' = [inflight EXCEPT ![p] = [pc |-> "looked", item |-> item, c |-> c]]
  /\ result' = NoResult
  /\ UNCHANGED <<fetch, files, trends, analytics_snapshots, hashtags, alerts, now, tz, okCount, last, cls>>

\* line 218: SELECT id FROM trends WHERE id = ?
SelectExisting(p) ==
  /\ inflight[p].pc = "looked"
  /\ inflight' = [inflight EXCEPT ![p] =
                    [pc |-> "selected", item |-> @.item, c |-> @.c,
                     existing |-> HasTrend(ReadView(DB, Uncommitted).trends,
                                           @.item.obj.id.str)]]
  /\ result' = NoResult
  /\ UNCHANGED <<fetch, files, trends, analytics_snapshots, hashtags, alerts, now, tz, okCount, last, cls>>

\* lines 220-274: the UPDATE / INSERT of trends, which opens the transaction.
\* An INSERT of an id another process inserted meanwhile fails on the primary
\* key: the call returns False (lines 298-300).
WriteRecord(p) ==
  /\ inflight[p].pc = "selected"
  /\ Writers = {}
  /\ LET i == inflight[p]
         d == i.item.obj
         row == TrendRow(d, d.id, LocalNow,
                         CurrentStats(PyGet(d, "stats", JObj(EmptyDict))), i.c,
                         PyGet(d, "author", JObj(EmptyDict)),
                         PyGet(d, "music", JObj(EmptyDict)))
     IN \E up \in {UpsertTrend(trends, row, i.existing)} :
          IF up.exc
          THEN /\ inflight' = [inflight EXCEPT ![p] = Idle]
               /\ last' = [NoCall EXCEPT !.op = "ingest", !.ret = "false", !.hasId = TRUE,
                                         !.wellFormed = (i.item # BadHashtag), !.id = IdOf(i.item)]
          ELSE /\ inflight' = [inflight EXCEPT ![p] =
                                 [pc |-> "written", item |-> i.item, c |-> i.c,
                                  existing |-> i.existing, lnow |-> LocalNow,
                                  work |-> [DB EXCEPT !.trends = up.rows]]]
               /\ last' = last
  /\ result' = NoResult
  /\ UNCHANGED <<fetch, files, trends, analytics_snapshots, hashtags, alerts, now, tz, okCount, cls>>

\* lines 277-300: the snapshot, the hashtags, and the commit or the rollback
Commit(p) ==
  /\ inflight[p].pc = "written"
  /\ LET i == inflight[p]
         d == i.item.obj
     IN \E t \in {WriteRows(DB, d, d.id, "none", i.lnow,
                            CurrentStats(PyGet(d, "stats", JObj(EmptyDict))), i.c,
                            i.existing, PyGet(d, "author", JObj(EmptyDict)),
                            PyGet(d, "music", JObj(EmptyDict)),
                            PyGet(d, "hashtags", JList(<<>>)))} :
          \E f \in {ConnExit(DB, t.db, t.exc)} :
            /\ trends' = f.trends
            /\ analytics_snapshots' = f.analytics_snapshots
            /\ hashtags' = f.hashtags
            /\ okCount' = IF t.exc THEN okCount ELSE [okCount EXCEPT ![d.id.str] = @ + 1]
            /\ last' = [NoCall EXCEPT !.op = "ingest",
                                      !.ret = IF t.exc THEN "false" ELSE "true",
                                      !.partial = t.exc, !.hasId = TRUE,
                                      !.wellFormed = (i.item # BadHashtag), !.id = IdOf(i.item)]
  /\ inflight' = [inflight EXCEPT ![p] = Idle]
  /\ result' = NoResult
  /\ UNCHANGED <<fetch, files, alerts, now, tz, cls>>

\* one call of TrendsDatabase.get_trending_by_stage, by a process of its own
GetByStage(stage, limit) ==
  /\ result' = [op |-> "get_trending_by_stage", hours |-> 0, min_growth_rate |-> 0,
                stage |-> stage, limit |-> limit, concurrent |-> Writers # {},
                rows |-> get_trending_by_stage(ReadView(DB, Uncommitted).trends, stage,
                                               limit)]
  /\ UNCHANGED <<fetch, files, inflight, trends, analytics_snapshots, hashtags, alerts, now, tz, okCount,
                 last, cls>>

\* one call of TrendsDatabase.get_breakout_trends, by a process of its own
GetBreakoutsDuring(hours, min_growth_rate) ==
  /\ result' = [op |-> "get_breakout_trends", hours |-> hours,
                min_growth_rate |-> min_growth_rate,
                rows |-> get_breakout_trends(ReadView(DB, Uncommitted).trends, LocalNow,
                                             hours, min_growth_rate)]
  /\ UNCHANGED <<fetch, files, inflight, trends, analytics_snapshots, hashtags, alerts, now, tz, okCount,
                 last, cls>>

\* the processes inside get_analytics_summary
Summarising == {p \in Procs : inflight[p].pc \in {"counting", "recent"}}

\* get_analytics_summary, lines 346-352: one SELECT COUNT(*) per stage, each
\* a statement of its own (one summary at a time).  first: the number of
\* committed records at the first statement of the call.
SummaryCount(p) ==
  /\ \/ inflight[p].pc = "idle" /\ Summarising = {}
     \/ inflight[p].pc = "counting" /\ Len(inflight[p].stage_counts) < Len(ViralityStage)
  /\ LET sofar == IF inflight[p].pc = "idle" THEN <<>> ELSE inflight[p].stage_counts
     IN inflight' = [inflight EXCEPT ![p] =
                       [pc |-> "counting",
                        first |-> IF inflight[p].pc = "idle" THEN Len(trends)
                                  ELSE inflight[p].first,
                        stage_counts |-> Append(sofar,
                                                CountByStage(ReadView(DB, Uncommitted).trends,
                                                             ViralityStage[Len(sofar) + 1]))]]
  /\ UNCHANGED <<fetch, files, trends, analytics_snapshots, hashtags, alerts, now, tz, okCount, last,
                 result, cls>>

\* get_analytics_summary, lines 355-359: the records of the last 24 hours
SummaryRecent(p) ==
  /\ inflight[p].pc = "counting"
  /\ Len(inflight[p].stage_counts) = Len(ViralityStage)
  /\ inflight' = [inflight EXCEPT ![p] =
                    [pc |-> "recent", first |-> @.first, stage_counts |-> @.stage_counts,
                     recent_count |->
                       Cardinality({k \in 1..Len(ReadView(DB, Uncommitted).trends) :
                                      ReadView(DB, Uncommitted).trends[k].last_updated
                                        > LocalNow - 24})]]
  /\ UNCHANGED <<fetch, files, trends, analytics_snapshots, hashtags, alerts, now, tz, okCount, last,
                 result, cls>>

\* get_analytics_summary, lines 362-376: the hashtags, and the returned dict
SummaryReturn(p) ==
  /\ inflight[p].pc = "recent"
  /\ LET stage_counts == [stage \in {ViralityStage[k] : k \in 1..Len(ViralityStage)} |->
                            inflight[p].stage_counts[
                              CHOOSE k \in 1..Len(ViralityStage) : ViralityStage[k] = stage]]
     IN result' = [op |-> "get_analytics_summary", hours |-> 24, min_growth_rate |-> 0,
                   rows |-> <<>>, first |-> inflight[p].first, final |-> Len(trends),
                   summary |->
                     [stage_counts |-> stage_counts,
                      recent_trends_24h |-> inflight[p].recent_count,
                      top_hashtags |-> TopHashtags(ReadView(DB, Uncommitted).hashtags,
                                                   LocalNow - 24),
                      total_trends |-> SumValues(stage_counts, ViralityStage)]]
  /\ inflight' = [inflight EXCEPT ![p] = Idle]
  /\ UNCHANGED <<fetch, files, trends, analytics_snapshots, hashtags, alerts, now, tz, okCount, last, cls>>

(***************************************************************************)
(* Ingestion and get_trending_by_stage.                                    *)
(***************************************************************************)
ByStageItems == {Item("a", 50000), Item("b", 50000), Item("a", 80000), Item("b", 2000000)}

\* the limits asked for (50 is the default)
Limits == {0, 1, 2, 50}

NextByStage ==
  \/ Tick
  \/ \E item \in ByStageItems : Ingest(item, "none")
  \/ \E stage \in {ViralityStage[k] : k \in 1..Len(ViralityStage)}, limit \in Limits :
       GetByStage(stage, limit)

SpecByStage == Init /\ [][NextByStage]_vars

(***************************************************************************)
(* TrendsAnalytics.identify_breakout_trends and generate_analytics_report. *)
(***************************************************************************)
\* mutant: the filter without the limit on the view count
identify_breakout_trends_NoViewCap(rows, lnow, hours, min_growth_rate) ==
  SelectSeq(get_breakout_trends(rows, lnow, hours, min_growth_rate),
            LAMBDA trend : /\ FracGt(trend.growth_rate, min_growth_rate)
                           /\ Truthy(trend.music_id))

\* compute_analytics.py lines 79-97: the breakouts with growth above the
\* minimum, fewer than 500,000 views and a music id
identify_breakout_trends(rows, lnow, hours, min_growth_rate) ==
  SelectSeq(get_breakout_trends(rows, lnow, hours, min_growth_rate),
            LAMBDA trend : /\ FracGt(trend.growth_rate, min_growth_rate)
                           /\ trend.view_count < 500000
                           /\ Truthy(trend.music_id))

\* [t for t in xs if t not in ys]
NotIn(xs, ys) == SelectSeq(xs, LAMBDA t : \A k \in 1..Len(ys) : ys[k] # t)

\* lines 101-135, every call reading the same tables at the same time
generate_analytics_report(db, lnow) ==
  LET breakout_1h == identify_breakout_trends(db.trends, lnow, 1, 200)
      breakout_6h == identify_breakout_trends(db.trends, lnow, 6, 100)
      breakout_24h == identify_breakout_trends(db.trends, lnow, 24, 50)
  IN [summary |-> get_analytics_summary(db, lnow),
      breakout_trends |-> [h1 |-> breakout_1h, h6 |-> breakout_6h, h24 |-> breakout_24h],
      trends_by_stage |-> [stage \in {ViralityStage[k] : k \in 1..Len(ViralityStage)} |->
                             get_trending_by_stage(db.trends, stage, 20)],
      ar_alerts |-> [high_priority |-> breakout_1h,
                     medium_priority |-> NotIn(breakout_6h, breakout_1h),
                     low_priority |-> NotIn(breakout_24h, breakout_6h)]]

\* a payload with a music id
WithMusic(id, views) ==
  JObj([id |-> JStr(id), stats |-> JObj([playCount |-> JNum(views)]),
        music |-> JObj([id |-> JStr("m")])])

\* growth of 120, 220 and 1100 percent from 50,000 views, with music, and
\* growth without music
ReportItems == {WithMusic("a", 50000), WithMusic("a", 110000), WithMusic("a", 160000),
                WithMusic("a", 600000), WithMusic("b", 50000), WithMusic("b", 80000),
                Item("b", 160000)}

\* one call of TrendsAnalytics.generate_analytics_report
GenerateReport ==
  /\ result' = [op |-> "generate_analytics_report", hours |-> 0, min_growth_rate |-> 0,
                rows |-> <<>>, report |-> generate_analytics_report(DB, LocalNow)]
  /\ UNCHANGED <<fetch, files, inflight, trends, analytics_snapshots, hashtags, alerts, now,
                 tz, okCount, last, cls>>

NextReport ==
  \/ Tick
  \/ \E item \in ReportItems : Ingest(item, "none")
  \/ GenerateReport

SpecReport == Init /\ [][NextReport]_vars

NextConcurrent ==
  \/ \E p \in Procs, item \in ConcItems : Lookup(p, item)
  \/ \E p \in Procs : SelectExisting(p)
  \/ \E p \in Procs : WriteRecord(p)
  \/ \E p \in Procs : Commit(p)
  \/ \E stage \in ConcStages : GetByStage(stage, 50)
  \/ GetBreakoutsDuring(24, 50)
  \/ \E p \in Procs : SummaryCount(p)
  \/ \E p \in Procs : SummaryRecent(p)
  \/ \E p \in Procs : SummaryReturn(p)

SpecConcurrent == Init /\ [][NextConcurrent]_vars

(***************************************************************************)
(* TikTokDiscoveryFetcher.fetch_endpoint: the retry loop.                  *)
(* fetch.attempt is the number of requests made, fetch.sleeps the number   *)
(* of delays, fetch.waited their sum in seconds, fetch.ret the way the     *)
(* call ended ("data", "None", "raise"; "none" while it runs).             *)
(***************************************************************************)
\* the values of the parameter retries (3 is the default)
RetriesArgs == {0, 1, 2, 3}

\* random.uniform(1, 3), in whole seconds
Delays == {1, 2, 3}

\* what one request gives: a JSON body, a body that is not JSON, or a
\* requests.exceptions.RequestException (connection error, timeout, HTTP status)
Responses == {"json", "nonjson", "error"}

\* what response.json() raises on a body that is not JSON depends on the
\* installed requests and simplejson: json.JSONDecodeError (caught at line
\* 66: None is returned), a RequestException that is not a
\* json.JSONDecodeError (caught at line 70: the attempt failed), or an
\* exception of neither kind (it leaves the method)
NonJsonHandling == {"None", "failed", "raise"}

\* mutant: the delay follows every failed attempt
ShouldSleep_Always(attempt, retries) == TRUE

\* line 72, attempt being the loop variable (from 0)
ShouldSleep(attempt, retries) == attempt < retries - 1

\* the call: "for attempt in range(retries)" with no attempt made yet
CallFetch(retries) ==
  /\ fetch.pc \in {"idle", "done"}
  /\ fetch' = IF retries <= 0
              THEN [NoFetch EXCEPT !.pc = "done", !.retries = retries, !.ret = "None"]
              ELSE [NoFetch EXCEPT !.pc = "loop", !.retries = retries]
  /\ UNCHANGED <<files, inflight, trends, analytics_snapshots, hashtags, alerts, now, tz,
                 okCount, last, result, cls>>

\* lines 57-73: one pass of the loop body up to the delay
Attempt(response, handling) ==
  /\ fetch.pc = "loop"
  /\ LET failed == response = "error" \/ (response = "nonjson" /\ handling = "failed")
         made == [fetch EXCEPT !.attempt = @ + 1]
     IN fetch' =
          IF response = "json" THEN [made EXCEPT !.pc = "done", !.ret = "data"]
          ELSE IF ~failed THEN [made EXCEPT !.pc = "done", !.ret = handling]
          ELSE IF ShouldSleep(fetch.attempt, fetch.retries) THEN [made EXCEPT !.pc = "sleep"]
          ELSE IF made.attempt < fetch.retries THEN made
          ELSE [made EXCEPT !.pc = "done", !.ret = "None"]
  /\ UNCHANGED <<files, inflight, trends, analytics_snapshots, hashtags, alerts, now, tz,
                 okCount, last, result, cls>>

\* line 73: time.sleep(random.uniform(1, 3)), then the next pass or the end
\* of the loop (lines 75-76)
Sleep(delay) ==
  /\ fetch.pc = "sleep"
  /\ LET slept == [fetch EXCEPT !.sleeps = @ + 1, !.waited = @ + delay]
     IN fetch' = IF fetch.attempt < fetch.retries THEN [slept EXCEPT !.pc = "loop"]
                 ELSE [slept EXCEPT !.pc = "done", !.ret = "None"]
  /\ UNCHANGED <<files, inflight, trends, analytics_snapshots, hashtags, alerts, now, tz,
                 okCount, last, result, cls>>

NextFetcher ==
  \/ \E retries \in RetriesArgs : CallFetch(retries)
  \/ \E response \in Responses, handling \in NonJsonHandling : Attempt(response, handling)
  \/ \E delay \in Delays : Sleep(delay)

\* the calls run to their end: a request ends within its timeout of 30
\* seconds (line 59) and a delay within 3 seconds
SpecFetcher == Init /\ [][NextFetcher]_vars /\ WF_vars(NextFetcher)

(***************************************************************************)
(* The files between the fetcher and the analytics run.                    *)
(* save_data writes <data_dir>/trending_items_<timestamp>.json and a copy  *)
(* trending_items.json in the working directory; process_all_trending_    *)
(* files reads the files of the first kind and then the copy.              *)
(***************************************************************************)
\* the aggregated items of one fetch_all_discovery_data
FetchedBatches == {<<Item("a", 50000)>>, <<Item("a", 80000)>>}

\* the file written for a list of items (lines 164-168)
BatchFile(items) == JObj([items |-> JList(items)])

\* write <name>_<timestamp>.json: a file of the same timestamp is replaced,
\* the files are kept in the order of their names
RECURSIVE WriteSnapshotFile(_, _)
WriteSnapshotFile(snapshots, f) ==
  IF snapshots = <<>> THEN <<f>>
  ELSE IF Head(snapshots).timestamp = f.timestamp THEN <<f>> \o Tail(snapshots)
  ELSE IF Head(snapshots).timestamp > f.timestamp THEN <<f>> \o snapshots
  ELSE <<Head(snapshots)>> \o WriteSnapshotFile(Tail(snapshots), f)

\* TikTokDiscoveryFetcher.save_data, lines 80-90
save_data(disk, data, lnow) ==
  [snapshots |-> WriteSnapshotFile(disk.snapshots, [timestamp |-> lnow, data |-> data]),
   latest |-> data]

\* compute_analytics.py lines 58-71: the files of the data directory, then
\* trending_items.json if it exists (sorted() puts "data/snapshots/..."
\* before "trending_items.json")
TrendingFiles(disk) ==
  [k \in 1..Len(disk.snapshots) |-> disk.snapshots[k].data]
    \o (IF IsNull(disk.latest) THEN <<>> ELSE <<disk.latest>>)

\* the number of items in a sequence of files
RECURSIVE TotalItems(_)
TotalItems(fs) == IF fs = <<>> THEN 0 ELSE FileLen(Head(fs)) + TotalItems(Tail(fs))

\* lines 71-73: process_trending_items_file for each file in turn
RECURSIVE RunFiles(_, _, _)
RunFiles(acc, fs, lnow) ==
  IF fs = <<>> THEN acc
  ELSE The({RunFiles([db |-> p.run.db, ok |-> p.run.ok,
                      total_processed |-> acc.total_processed + p.ret,
                      attempted |-> acc.attempted + p.run.attempted],
                     Tail(fs), lnow) :
              p \in {process_trending_items_file(acc.db, Head(fs), 0, "none", lnow, acc.ok)}})

\* TrendsAnalytics.process_all_trending_files
process_all_trending_files(db, disk, lnow, ok0) ==
  RunFiles([db |-> db, ok |-> ok0, total_processed |-> 0, attempted |-> 0],
           TrendingFiles(disk), lnow)

\* fetch_all_discovery_data, lines 163-170: the items of the run are saved
SaveTrendingItems(items) ==
  /\ items # <<>>
  /\ files' = save_data(files, BatchFile(items), LocalNow)
  /\ last' = [NoCall EXCEPT !.op = "save_data", !.ret = "returned", !.items = Len(items)]
  /\ result' = NoResult
  /\ UNCHANGED <<fetch, inflight, trends, analytics_snapshots, hashtags, alerts, now, tz,
                 okCount, cls>>

\* one run of process_all_trending_files
ProcessAll ==
  /\ Len(analytics_snapshots) + TotalItems(TrendingFiles(files)) <= MaxSnaps
  /\ \E r \in {process_all_trending_files(DB, files, LocalNow, okCount)} :
        /\ trends' = r.db.trends
        /\ analytics_snapshots' = r.db.analytics_snapshots
        /\ hashtags' = r.db.hashtags
        /\ okCount' = r.ok
        /\ last' = [NoCall EXCEPT !.op = "process_all_trending_files", !.ret = "returned",
                                  !.items = Len(TrendingFiles(files)),
                                  !.attempted = r.attempted,
                                  !.succeeded = r.total_processed,
                                  !.count = r.total_processed]
  /\ result' = NoResult
  /\ UNCHANGED <<fetch, files, inflight, alerts, now, tz, cls>>

NextFiles ==
  \/ Tick
  \/ \E items \in FetchedBatches : SaveTrendingItems(items)
  \/ ProcessAll

SpecFiles == Init /\ [][NextFiles]_vars

(***************************************************************************)
(* Properties                                                              *)
(***************************************************************************)
RowsOf(rows, id) == {i \in 1..Len(rows) : rows[i].id = id}
SnapsOf(rows, id) == {i \in 1..Len(rows) : rows[i].trend_id = id}

\* a step that is one call of insert_or_update_trend (time stands still during a call)
IngestStep == last'.op = "ingest" /\ now' = now

\* C1: after any sequence of ingest calls the trends table holds exactly one
\* record for every id ingested successfully at least once (and none for any
\* other id), and the number of snapshots of an id equals the number of
\* ingest calls for that id that returned true.
C1_OneRecordNSnapshots ==
  /\ \A i \in 1..Len(trends) : trends[i].id \in Ids
  /\ \A i \in 1..Len(analytics_snapshots) : analytics_snapshots[i].trend_id \in Ids
  /\ \A id \in Ids :
       /\ Cardinality(RowsOf(trends, id)) = (IF okCount[id] > 0 THEN 1 ELSE 0)
       /\ Cardinality(SnapsOf(analytics_snapshots, id)) = okCount[id]

\* C1 witness: one id ingested twice and another once
C1_Witness == okCount["a"] = 2 /\ okCount["b"] = 1 /\ Len(trends) = 2

\* C2: an ingest call is all-or-nothing: when the record upsert, the snapshot
\* append or a hashtag append fails (or any error is raised after writes were
\* made) the call returns false, and a call that does not return true leaves
\* the trends, snapshots and hashtag tables exactly as they were.
C2_AllOrNothing ==
  [][IngestStep =>
       /\ (last'.fault \in {"upsert", "snapshot", "hashtag"} \/ last'.partial)
            => last'.ret = "false"
       /\ last'.ret # "true"
            => /\ trends' = trends
               /\ analytics_snapshots' = analytics_snapshots
               /\ hashtags' = hashtags]_vars

\* C2 witness: a call failed after it had written, with rows already stored
C2_Witness ==
  /\ last.op = "ingest" /\ last.ret = "false" /\ last.partial
  /\ last.fault = "hashtag"
  /\ Len(trends) > 0

\* C3: in a file, an error raised while processing one item (also an item that
\* is not an object, or an error before the id is read) is caught inside the
\* ingest call, so every item of the file is attempted and the returned count
\* is the number of items whose ingestion returned true.
C3_BatchContinues ==
  last.op = "process_file" =>
    /\ last.ret # "raise"
    /\ last.attempted = last.items
    /\ last.count = last.succeeded

\* C4: with the store available, an ingest call rejects a payload if and only
\* if its id is missing or empty.
C4_RejectsIffNoId ==
  (last.op = "ingest" /\ last.fault = "none") =>
    (last.ret = "true" <=> last.hasId)

\* C5: the stage is the banded table applied to (views, growth rate): below
\* 10,000 New; in [10,000, 100,000) Early Traction iff growth > 50, else New;
\* in [100,000, 1,000,000) Early Traction iff growth > 20, else Steady; from
\* 1,000,000 Early Traction iff growth > 10, else Massive; and the seven
\* listed points classify as stated.
Band(v) == IF v >= 1000000 THEN 4 ELSE IF v >= 100000 THEN 3 ELSE IF v >= 10000 THEN 2 ELSE 1
BandCutoff == <<0, 50, 20, 10>>
BandElse == <<New, New, Steady, Massive>>
StageTable(v, g) ==
  IF Band(v) > 1 /\ g.n > BandCutoff[Band(v)] * g.d THEN EarlyTraction ELSE BandElse[Band(v)]

ListedPoints ==
  {<<5000, 0, New>>, <<50000, 60, EarlyTraction>>, <<50000, 10, New>>,
   <<500000, 25, EarlyTraction>>, <<500000, 5, Steady>>,
   <<2000000, 15, EarlyTraction>>, <<2000000, 5, Massive>>}

C5_StageIsBandedTable ==
  /\ cls.stage = StageTable(cls.view_count, cls.growth_rate)
  /\ \A p \in ListedPoints :
       (cls.view_count = p[1] /\ cls.growth_rate = Frac(p[2], 1)) => cls.stage = p[3]

\* C5 witness: a view count on a band limit with the growth rate on the cutoff
C5_Witness ==
  cls.view_count = 100000 /\ cls.growth_rate = Frac(20, 1) /\ cls.stage = Steady

\* the snapshot rows of one id, in rowid order
RECURSIVE SnapSeqOf(_, _)
SnapSeqOf(rows, id) ==
  IF rows = <<>> THEN <<>>
  ELSE IF rows[Len(rows)].trend_id = id
       THEN Append(SnapSeqOf(SubSeq(rows, 1, Len(rows) - 1), id), rows[Len(rows)])
       ELSE SnapSeqOf(SubSeq(rows, 1, Len(rows) - 1), id)

\* (cur - prev) / prev * 100
Pct(cur, prev) == Frac((cur - prev) * 100, prev)

\* a step that is one successful call: it appended the last snapshot row
IngestedStep ==
  /\ IngestStep /\ last'.ret = "true"
  /\ Len(analytics_snapshots') = Len(analytics_snapshots) + 1

NewSnap == analytics_snapshots'[Len(analytics_snapshots')]

\* C6: the growth rate computed at an ingestion is 0 when the id has no prior
\* snapshot or the most recent prior snapshot has view_count 0, and otherwise
\* (current - previous) / previous * 100 against the most recent prior
\* snapshot of the same id.
C6_GrowthAgainstMostRecent ==
  [][IngestedStep =>
       LET prior == SnapSeqOf(analytics_snapshots, NewSnap.trend_id)
       IN NewSnap.growth_rate =
            (IF prior = <<>> \/ prior[Len(prior)].view_count = 0
             THEN Zero
             ELSE Pct(NewSnap.view_count, prior[Len(prior)].view_count))]_vars

\* C6 witness: a third snapshot of an id whose two earlier snapshots differ,
\* with the growth rate taken against the second
C6_Witness ==
  /\ last.op = "ingest" /\ last.ret = "true"
  /\ Len(analytics_snapshots) = 3
  /\ \A i \in 1..3 : analytics_snapshots[i].trend_id = "a"
  /\ analytics_snapshots[1].view_count = 50000
  /\ analytics_snapshots[2].view_count = 80000
  /\ analytics_snapshots[3].view_count = 50000
  /\ analytics_snapshots[3].growth_rate = Frac(-75, 2)

\* the record of an id (the id has exactly one)
RecordOf(rows, id) == rows[CHOOSE i \in 1..Len(rows) : rows[i].id = id]

\* a successful call for an id that has a record, with a payload whose stored
\* fields are those the record already holds
ReingestUnchanged ==
  /\ IngestedStep
  /\ RowsOf(trends, NewSnap.trend_id) # {}
  /\ LET old == RecordOf(trends, NewSnap.trend_id)
         new == RecordOf(trends', NewSnap.trend_id)
     IN /\ new.title = old.title /\ new.author = old.author
        /\ new.description = old.description /\ new.source = old.source
        /\ new.music_id = old.music_id
        /\ new.view_count = old.view_count /\ new.like_count = old.like_count
        /\ new.share_count = old.share_count /\ new.comment_count = old.comment_count

\* C7 as stated: re-ingesting an unchanged payload for a tracked id records
\* growth rate 0 and leaves the record's stage unchanged, whatever the stage
\* was, Early Traction included.
C7_StageUnchanged ==
  [][ReingestUnchanged =>
       LET old == RecordOf(trends, NewSnap.trend_id)
           new == RecordOf(trends', NewSnap.trend_id)
       IN new.growth_rate = Zero /\ new.virality_stage = old.virality_stage]_vars

\* the stage of a view count whose growth rate is 0
RestingStage(v) == IF v < 100000 THEN New ELSE IF v < 1000000 THEN Steady ELSE Massive

\* C7 amended: re-ingesting an unchanged payload for a tracked id records
\* growth rate 0 and leaves the record's stage unchanged unless the stage was
\* Early Traction, which becomes the stage of the view band at growth 0
\* (New below 100,000 views, Steady below 1,000,000, Massive from there).
C7_StageUnchangedUnlessEarlyTraction ==
  [][ReingestUnchanged =>
       LET old == RecordOf(trends, NewSnap.trend_id)
           new == RecordOf(trends', NewSnap.trend_id)
       IN /\ new.growth_rate = Zero
          /\ new.virality_stage =
               (IF old.virality_stage = EarlyTraction
                THEN RestingStage(old.view_count)
                ELSE old.virality_stage)]_vars

\* C7 witness: an Early Traction record was re-ingested unchanged
C7_Witness ==
  /\ last.op = "ingest" /\ last.ret = "true"
  /\ \E i \in 1..Len(analytics_snapshots) : \E j \in (i + 1)..Len(analytics_snapshots) :
       /\ analytics_snapshots[i].trend_id = analytics_snapshots[j].trend_id
       /\ j = Len(analytics_snapshots)
       /\ \A k \in (i + 1)..(j - 1) :
            analytics_snapshots[k].trend_id # analytics_snapshots[i].trend_id
       /\ analytics_snapshots[i].virality_stage = EarlyTraction
       /\ analytics_snapshots[j].view_count = analytics_snapshots[i].view_count
       /\ analytics_snapshots[j].virality_stage = Steady
       /\ RecordOf(trends, analytics_snapshots[j].trend_id).virality_stage = Steady

SameMetrics(x, y) ==
  /\ x.view_count = y.view_count /\ x.like_count = y.like_count
  /\ x.share_count = y.share_count /\ x.comment_count = y.comment_count

\* C8: two consecutive ingest calls for the same id with identical metrics
\* both succeed (a well-formed payload is never refused while the store
\* works), the second records growth rate 0 and still appends its own
\* snapshot next to the first one's: nothing is deduplicated by content.
C8_NoDeduplication ==
  [][IngestStep =>
       /\ (last'.wellFormed /\ last'.fault = "none")
            => (last'.ret = "true"
                /\ Len(analytics_snapshots') = Len(analytics_snapshots) + 1)
       /\ (/\ last.op = "ingest" /\ last.ret = "true"
           /\ last'.wellFormed /\ last'.fault = "none"
           /\ NewSnap.trend_id = analytics_snapshots[Len(analytics_snapshots)].trend_id
           /\ SameMetrics(NewSnap, analytics_snapshots[Len(analytics_snapshots)]))
            => /\ NewSnap.growth_rate = Zero
               /\ RecordOf(trends', NewSnap.trend_id).growth_rate = Zero
               /\ Cardinality(SnapsOf(analytics_snapshots', NewSnap.trend_id))
                    = Cardinality(SnapsOf(analytics_snapshots, NewSnap.trend_id)) + 1
               /\ SubSeq(analytics_snapshots', 1, Len(analytics_snapshots))
                    = analytics_snapshots]_vars

\* C8 witness: the last two snapshot rows come from two calls in immediate
\* succession with identical metrics, non-zero views included
C8_Witness ==
  /\ last.op = "ingest" /\ last.ret = "true"
  /\ Len(analytics_snapshots) = 2
  /\ analytics_snapshots[1].trend_id = analytics_snapshots[2].trend_id
  /\ analytics_snapshots[1].timestamp = analytics_snapshots[2].timestamp
  /\ analytics_snapshots[1].view_count = 80000
  /\ SameMetrics(analytics_snapshots[1], analytics_snapshots[2])
  /\ analytics_snapshots[2].growth_rate = Zero

\* the rows of a sequence, as a set
Range(s) == {s[i] : i \in 1..Len(s)}

\* C9: for any store state, window and min_growth_rate, get_breakout_trends
\* returns exactly the records whose last_updated is strictly after
\* now - window, whose growth rate is strictly greater than min_growth_rate
\* and whose stage is Early Traction, each once; it never returns a record
\* whose stage is New, Steady or Massive.
C9_BreakoutsExactlyEarlyTraction ==
  result.op = "get_breakout_trends" =>
    /\ Range(result.rows) =
         {r \in Range(trends) :
            /\ r.last_updated > LocalNow - result.hours
            /\ r.growth_rate.n > result.min_growth_rate * r.growth_rate.d
            /\ r.virality_stage = EarlyTraction}
    /\ Cardinality(Range(result.rows)) = Len(result.rows)
    /\ \A i \in 1..Len(result.rows) :
         result.rows[i].virality_stage \notin {New, Steady, Massive}

\* C9 witness: the query returned the Early Traction record and left out a
\* Massive record that is as recent and whose growth rate is above the minimum
C9_Witness ==
  /\ result.op = "get_breakout_trends"
  /\ {r.id : r \in Range(result.rows)} = {"a"}
  /\ \E r \in Range(trends) :
       /\ r.id = "b" /\ r.virality_stage = Massive
       /\ r.last_updated > LocalNow - result.hours
       /\ r.growth_rate.n > result.min_growth_rate * r.growth_rate.d

\* the instant (on the clock of now) at which an alert row was written
WrittenAt(a) == a.sent_at - tz

\* C10 as stated: with T the instant log_alert wrote a successful entry for X
\* and the evaluation instant on the same clock, check_for_breakout_trends
\* leaves X out of the candidates when evaluated before T + 6h and keeps X
\* when no successful entry is younger than 6h; failed entries never exclude.
C10_SuppressedForSixHours ==
  result.op = "check_for_breakout_trends" =>
    \A c \in Range(get_breakout_trends(trends, LocalNow, result.hours, result.min_growth_rate)) :
      (c \in Range(result.rows)) <=>
        ~ \E a \in Range(alerts) :
            /\ a.trend_id = c.id
            /\ a.success
            /\ now < WrittenAt(a) + SuppressionHours

\* C11: in every committed store state, each record's stage, growth rate and
\* four metric counts are those of the most recently appended snapshot of
\* the same id.
C11_RecordMirrorsLatestSnapshot ==
  \A r \in Range(trends) :
    LET snaps == SnapSeqOf(analytics_snapshots, r.id)
    IN /\ snaps # <<>>
       /\ LET s == snaps[Len(snaps)]
          IN /\ r.virality_stage = s.virality_stage
             /\ r.growth_rate = s.growth_rate
             /\ SameMetrics(r, s)

\* C11 witness: a record after three ingestions whose last one left Early
\* Traction; the record carries the third snapshot's values
C11_Witness ==
  /\ Len(analytics_snapshots) = 3
  /\ \A i \in 1..3 : analytics_snapshots[i].trend_id = "a"
  /\ analytics_snapshots[2].virality_stage = EarlyTraction
  /\ analytics_snapshots[3].virality_stage = New
  /\ analytics_snapshots[3].growth_rate = Frac(-75, 2)
  /\ RecordOf(trends, "a").virality_stage = New
  /\ RecordOf(trends, "a").view_count = 50000

\* C12: first_seen is set by the first successful ingestion of an id and
\* kept by every later one, last_updated is set by every successful
\* ingestion, and first_seen <= last_updated for every record.
C12_FirstSeenKept ==
  [][/\ \A r \in Range(trends') : r.first_seen <= r.last_updated
     /\ \A r \in Range(trends) :
          \E q \in Range(trends') : q.id = r.id /\ q.first_seen = r.first_seen
     /\ IngestedStep =>
          LET new == RecordOf(trends', NewSnap.trend_id)
          IN /\ new.last_updated = LocalNow
             /\ new.first_seen =
                  (IF RowsOf(trends, NewSnap.trend_id) = {}
                   THEN LocalNow
                   ELSE RecordOf(trends, NewSnap.trend_id).first_seen)]_vars

\* C12 witness: a record ingested again at a later time
C12_Witness ==
  /\ last.op = "ingest" /\ last.ret = "true"
  /\ okCount["a"] >= 2
  /\ RecordOf(trends, "a").first_seen < RecordOf(trends, "a").last_updated
  /\ RecordOf(trends, "a").last_updated = LocalNow

\* C13: the snapshot log is append-only: every step keeps the existing rows
\* as they are and in place, and each appended row's timestamp is greater
\* than or equal to that of every earlier snapshot of the same id.
C13_SnapshotsAppendOnly ==
  [][/\ Len(analytics_snapshots') >= Len(analytics_snapshots)
     /\ SubSeq(analytics_snapshots', 1, Len(analytics_snapshots)) = analytics_snapshots
     /\ \A j \in (Len(analytics_snapshots) + 1)..Len(analytics_snapshots') :
          \A i \in 1..(j - 1) :
            analytics_snapshots'[i].trend_id = analytics_snapshots'[j].trend_id
              => analytics_snapshots'[i].timestamp <= analytics_snapshots'[j].timestamp]_vars

\* C13 witness: three snapshots of one id taken at three different times
C13_Witness ==
  /\ Len(analytics_snapshots) = 3
  /\ \A i \in 1..3 : analytics_snapshots[i].trend_id = "a"
  /\ analytics_snapshots[1].timestamp < analytics_snapshots[2].timestamp
  /\ analytics_snapshots[2].timestamp < analytics_snapshots[3].timestamp

\* C14: no stage transition is forbidden: for every ordered pair of stages
\* (s, t) there are consecutive successful ingestions of one id, with
\* non-negative view counts, after which the record's stage goes from s to t.
C14_NoTransitionForbidden ==
  /\ \A q \in StagePaths : \A i \in 1..Len(q) : q[i] >= 0
  /\ \E reached \in {ReachedTransitions(DB, LocalNow)} :
       \A s \in Range(ViralityStage), t \in Range(ViralityStage) : <<s, t>> \in reached

\* C14 witness: a record that was New, then Massive, and is Early Traction
\* after the next ingestion
C14_Witness ==
  /\ last.op = "ingest" /\ last.ret = "true"
  /\ Len(analytics_snapshots) = 3
  /\ \A i \in 1..3 : analytics_snapshots[i].trend_id = "a"
  /\ analytics_snapshots[1].virality_stage = New
  /\ analytics_snapshots[2].virality_stage = Massive
  /\ RecordOf(trends, "a").virality_stage = EarlyTraction

\* C15: for every store state, the stage_counts values returned by one
\* get_analytics_summary call sum exactly to the total_trends of that call.
C15_StageCountsSumToTotal ==
  result.op = "get_analytics_summary" =>
    /\ DOMAIN result.summary.stage_counts = {New, EarlyTraction, Steady, Massive}
    /\ result.summary.total_trends =
         result.summary.stage_counts[New] + result.summary.stage_counts[EarlyTraction]
           + result.summary.stage_counts[Steady] + result.summary.stage_counts[Massive]

\* C15 witness: a summary of a store with two records in different stages,
\* one of them ingested twice
C15_Witness ==
  /\ result.op = "get_analytics_summary"
  /\ Len(analytics_snapshots) = 3
  /\ result.summary.total_trends = 2
  /\ result.summary.stage_counts[EarlyTraction] = 1
  /\ result.summary.stage_counts[Massive] = 1

\* C16 : the steps of one ingest call are atomic with respect to the other
\* ingest calls of the same id: no snapshot of the id is committed between the
\* history lookup of a call and its own snapshot, so that every snapshot stores
\* the growth of its view count from the snapshot just before it (0 for the
\* first snapshot of an id, and after a view count of 0).
C16_GrowthAgainstImmediatePredecessor ==
  \A id \in Ids :
    \A s \in {SnapSeqOf(analytics_snapshots, id)} :
      \A k \in 1..Len(s) :
        s[k].growth_rate = IF k = 1 \/ s[k - 1].view_count = 0 THEN Zero
                           ELSE Pct(s[k].view_count, s[k - 1].view_count)

\* a committed snapshot with the values of the record r
HasCommittedSnapshot(r) ==
  \E k \in 1..Len(analytics_snapshots) :
    /\ analytics_snapshots[k].trend_id = r.id
    /\ analytics_snapshots[k].timestamp = r.last_updated
    /\ SameMetrics(analytics_snapshots[k], r)
    /\ analytics_snapshots[k].growth_rate = r.growth_rate
    /\ analytics_snapshots[k].virality_stage = r.virality_stage

\* the ids that have a committed snapshot of the stage
CommittedInStage(stage) ==
  {analytics_snapshots[k].trend_id :
     k \in {j \in 1..Len(analytics_snapshots) : analytics_snapshots[j].virality_stage = stage}}

\* C17 : a query running while ingest calls are in progress reads committed
\* rows only: every record get_trending_by_stage or get_breakout_trends
\* returns has a committed snapshot with the same values (a record is never
\* seen without the snapshot of its transaction, nor from a transaction that
\* rolls back), and every figure of get_analytics_summary (the count of a
\* stage, the recent records, the uses of a hashtag) counts committed rows.
C17_QueriesReadCommitted ==
  /\ result.op \in {"get_trending_by_stage", "get_breakout_trends"}
       => \A k \in 1..Len(result.rows) : HasCommittedSnapshot(result.rows[k])
  /\ \A p \in Summarising :
       \A k \in 1..Len(inflight[p].stage_counts) :
         inflight[p].stage_counts[k] <= Cardinality(CommittedInStage(ViralityStage[k]))
  /\ result.op = "get_analytics_summary"
       => /\ \A stage \in Range(ViralityStage) :
               result.summary.stage_counts[stage] <= Cardinality(CommittedInStage(stage))
          /\ result.summary.recent_trends_24h
               <= Cardinality({analytics_snapshots[k].trend_id :
                                 k \in 1..Len(analytics_snapshots)})
          /\ \A h \in result.summary.top_hashtags :
               h.usage_count <= Cardinality({k \in 1..Len(hashtags) :
                                               hashtags[k].hashtag = h.hashtag})

\* get_trending_by_stage ran while a transaction that moves the record to
\* another stage was open, and returned the committed record
C17_Witness ==
  /\ result.op = "get_trending_by_stage"
  /\ result.concurrent
  /\ Writers # {}
  /\ result.rows = trends
  /\ Len(trends) = 1
  /\ Uncommitted.trends[1].virality_stage # trends[1].virality_stage

\* get_analytics_summary ran across a commit and returned hashtag counts
C17_WitnessSummary ==
  /\ result.op = "get_analytics_summary"
  /\ result.summary.total_trends = 2
  /\ Len(trends) = 1
  /\ result.summary.top_hashtags # {}

\* C18 : an error of the store connection itself during the ingestion of a
\* file (the connection cannot be opened) is fatal: the exception leaves
\* process_trending_items_file and reaches its caller, it is not turned into
\* a failed item or into a returned count.
C18_ConnectionErrorPropagates ==
  (last.op = "process_file" /\ last.fault = "connect")
    => (last.ret = "raise" /\ ~last.caught)

\* C19 : an ingest call for id X, whether it returns true or false or raises,
\* leaves every record, snapshot and hashtag row of every other id Y as it
\* was, and leaves the alert log as it was.
C19_OtherIdsUntouched ==
  [][IngestStep =>
       /\ alerts' = alerts
       /\ \A Y \in Ids \ {last'.id} :
            /\ SelectSeq(trends', LAMBDA r : r.id = Y)
                 = SelectSeq(trends, LAMBDA r : r.id = Y)
            /\ SelectSeq(analytics_snapshots', LAMBDA r : r.trend_id = Y)
                 = SelectSeq(analytics_snapshots, LAMBDA r : r.trend_id = Y)
            /\ SelectSeq(hashtags', LAMBDA r : r.trend_id = Y)
                 = SelectSeq(hashtags, LAMBDA r : r.trend_id = Y)]_vars

\* C19 witness: the record of "a" updated by a second successful call while
\* the store holds a record of "b"
C19_Witness ==
  /\ last.op = "ingest" /\ last.ret = "true" /\ last.id = "a"
  /\ okCount["a"] >= 2
  /\ RowsOf(trends, "b") # {}
  /\ RecordOf(trends, "b") # [RecordOf(trends, "a") EXCEPT !.id = "b",
                                !.first_seen = RecordOf(trends, "b").first_seen]

\* C19 witness: a call for "b" while "a" has hashtag rows
C19_WitnessHashtags ==
  /\ last.op = "ingest" /\ last.id = "b"
  /\ \E k \in 1..Len(hashtags) : hashtags[k].trend_id = "a"

\* a step that is one run of send_breakout_alerts
AlertRunStep == last'.op = "send_breakout_alerts" /\ result' = NoResult /\ now' = now

\* the alert rows a step appended
NewAlerts == SubSeq(alerts', Len(alerts) + 1, Len(alerts'))

\* C20 : every delivery attempt through a configured channel appends exactly
\* one alert row whose success flag is the outcome of the delivery (false,
\* with an error description, on failure); a failed delivery is returned as
\* false and not raised; no step changes or removes an existing alert row.
C20_OneEntryPerAttempt ==
  [][/\ Len(alerts') >= Len(alerts)
     /\ SubSeq(alerts', 1, Len(alerts)) = alerts
     /\ AlertRunStep =>
          /\ last'.ret = "returned"
          /\ Len(NewAlerts) = last'.attempted
          /\ Cardinality({k \in 1..Len(NewAlerts) : NewAlerts[k].success}) = last'.succeeded
          /\ \A k \in 1..Len(NewAlerts) : NewAlerts[k].error = ~NewAlerts[k].success]_vars

\* C21 : for any store state, stage and limit >= 0, get_trending_by_stage
\* returns at most limit records of the store, all of the requested stage, in
\* non-increasing order of last_updated, and no record of that stage left out
\* has a last_updated later than a returned one.
C21_ByStageOrderedAndLimited ==
  result.op = "get_trending_by_stage" =>
    /\ Len(result.rows) <= result.limit
    /\ \A k \in 1..Len(result.rows) :
         /\ result.rows[k] \in Range(trends)
         /\ result.rows[k].virality_stage = result.stage
    /\ \A j, k \in 1..Len(result.rows) :
         j < k => result.rows[j].last_updated >= result.rows[k].last_updated
    /\ \A r \in Range(trends) :
         (r.virality_stage = result.stage /\ r \notin Range(result.rows))
           => \A k \in 1..Len(result.rows) : r.last_updated <= result.rows[k].last_updated

\* C21 witness: two records of the stage, updated at different times, and a
\* limit of 1: the later one is returned and the earlier one left out
C21_Witness ==
  /\ result.op = "get_trending_by_stage" /\ result.limit = 1
  /\ Len(result.rows) = 1
  /\ \E r \in Range(trends) :
       /\ r.virality_stage = result.stage
       /\ r.last_updated < result.rows[1].last_updated
       /\ r = trends[Len(trends)]

\* C22 : a successful ingest call appends one hashtag row per element of the
\* hashtags list of the payload, in order, with the id of the payload and the
\* time of the call, whether or not the same hashtag occurs twice in the list
\* or is already stored for the id (N ingestions of k hashtags leave N * k
\* rows); a call that does not return true appends none.
C22_OneOccurrencePerHashtag ==
  [][IngestStep =>
       hashtags' = IF last'.ret = "true"
                   THEN hashtags \o [k \in 1..Len(last'.tags) |->
                                       [hashtag |-> last'.tags[k], trend_id |-> last'.id,
                                        timestamp |-> LocalNow]]
                   ELSE hashtags]_vars

\* C22 witness: the payload with three hashtags, two of them equal, ingested
\* twice: six rows
C22_Witness ==
  /\ last.op = "ingest" /\ last.ret = "true" /\ last.id = "a"
  /\ Len(last.tags) = 3 /\ last.tags[1] = last.tags[3]
  /\ okCount["a"] = 2
  /\ Len(SelectSeq(hashtags, LAMBDA r : r.trend_id = "a")) = 6

\* C23 : a call of fetch_endpoint makes at most `retries` requests, returns
\* the data at the first request that succeeds, waits once after each failed
\* request that is not the last one and never after the last, returns None
\* when all `retries` requests have failed, and always comes to its end.
C23_FetchBoundedRetries ==
  /\ [](/\ fetch.attempt <= fetch.retries \/ fetch.attempt = 0
        /\ fetch.pc = "loop" => fetch.sleeps = fetch.attempt
        /\ fetch.pc = "sleep" => (fetch.sleeps = fetch.attempt - 1
                                  /\ fetch.attempt < fetch.retries)
        /\ (fetch.pc = "done" /\ fetch.attempt > 0) => fetch.sleeps = fetch.attempt - 1
        /\ (fetch.pc = "done" /\ fetch.attempt = 0) => (fetch.sleeps = 0 /\ fetch.ret = "None")
        /\ fetch.pc = "done" <=> fetch.ret # "none"
        /\ fetch.waited <= 3 * fetch.sleeps)
  /\ (fetch.pc \in {"loop", "sleep"}) ~> (fetch.pc = "done")

\* C23 witness: three requests failed, two delays, None returned
C23_Witness ==
  /\ fetch.pc = "done" /\ fetch.ret = "None"
  /\ fetch.retries = 3 /\ fetch.attempt = 3 /\ fetch.sleeps = 2

\* C23 witness: the second request succeeded after one delay
C23_WitnessSuccess ==
  /\ fetch.pc = "done" /\ fetch.ret = "data"
  /\ fetch.retries = 3 /\ fetch.attempt = 2 /\ fetch.sleeps = 1

\* the view count of an id in a fetched file (0 when the file has no such item)
ViewsIn(data, id) ==
  IF \E k \in 1..FileLen(data) : IdOf(data.obj.items.list[k]) = id
  THEN (CHOOSE it \in Range(data.obj.items.list) : IdOf(it) = id).obj.stats.obj.playCount.num
  ELSE 0

\* C24 : a run of process_all_trending_files ingests every fetched batch
\* once: the items of the most recent fetch are not ingested again from
\* trending_items.json, so an item whose views grew between its two most
\* recent fetches has that growth rate on its record after the run.
C24_BatchesIngestedOnce ==
  (last.op = "process_all_trending_files" /\ Len(files.snapshots) >= 2) =>
    /\ last.attempted = TotalItems([k \in 1..Len(files.snapshots) |-> files.snapshots[k].data])
    /\ \A id \in Ids :
         LET n == Len(files.snapshots)
             prev == ViewsIn(files.snapshots[n - 1].data, id)
             cur == ViewsIn(files.snapshots[n].data, id)
         IN (0 < prev /\ prev < cur) =>
              RecordOf(trends, id).growth_rate = Pct(cur, prev)

\* C25 : after any sequence of ingest calls made one after another, every
\* stored snapshot has the growth rate of its view count from the snapshot
\* just before it for the same id (0 for the first snapshot of an id and
\* after a view count of 0), and the stage the banded table gives for its
\* view count and that growth rate.
C25_SnapshotsMatchClassifier ==
  \A id \in Ids :
    \A s \in {SnapSeqOf(analytics_snapshots, id)} :
      \A k \in 1..Len(s) :
        \E g \in {IF k = 1 \/ s[k - 1].view_count = 0 THEN Zero
                  ELSE Pct(s[k].view_count, s[k - 1].view_count)} :
          /\ s[k].growth_rate = g
          /\ s[k].virality_stage = StageTable(s[k].view_count, g)

\* C25 witness: snapshots of two ids interleaved, the last one of "b" in
\* Early Traction by its growth from the earlier snapshot of "b"
C25_Witness ==
  /\ Len(analytics_snapshots) = 3
  /\ analytics_snapshots[1].trend_id = "b"
  /\ analytics_snapshots[2].trend_id = "a"
  /\ analytics_snapshots[3].trend_id = "b"
  /\ analytics_snapshots[3].virality_stage = EarlyTraction
  /\ analytics_snapshots[3].growth_rate = Frac(20, 1)

\* C26 : when ingest calls for the same id run at the same time, at most one
\* record of the id is ever committed and the number of snapshots of the id
\* is the number of calls that returned true; a call that finds the id
\* inserted by another call after its own existence check returns false and
\* commits no record, no snapshot and no hashtag row.
C26_RaceLoserCommitsNothing ==
  /\ [](\A id \in Ids :
          /\ Cardinality(RowsOf(trends, id)) = (IF okCount[id] > 0 THEN 1 ELSE 0)
          /\ Cardinality(SnapsOf(analytics_snapshots, id)) = okCount[id])
  /\ [][(last'.op = "ingest" /\ last'.ret = "false") =>
          /\ trends' = trends
          /\ analytics_snapshots' = analytics_snapshots
          /\ hashtags' = hashtags]_vars

\* C26 witness: a call with a well-formed payload returned false without
\* having written: its INSERT met the record another call had committed
C26_Witness ==
  /\ last.op = "ingest" /\ last.ret = "false" /\ last.wellFormed /\ ~last.partial
  /\ okCount["a"] = 1
  /\ Len(trends) = 1 /\ Len(analytics_snapshots) = 1

\* C27 : for any store reached by ingestions with view counts >= 0, any
\* window and any min_growth_rate, negative ones too, every record returned
\* by get_breakout_trends has view_count >= 10,000, a growth rate above 10
\* and at least two snapshots: an id ingested successfully only once is never
\* returned.
C27_BreakoutsHaveHistory ==
  result.op = "get_breakout_trends" =>
    \A k \in 1..Len(result.rows) :
      /\ result.rows[k].view_count >= 10000
      /\ FracGt(result.rows[k].growth_rate, 10)
      /\ Cardinality(SnapsOf(analytics_snapshots, result.rows[k].id)) >= 2
      /\ okCount[result.rows[k].id] >= 2

\* C27 witness: with a negative min_growth_rate, the record ingested twice is
\* returned and the recent record ingested once, whose growth rate 0 is above
\* the minimum, is not
C27_Witness ==
  /\ result.op = "get_breakout_trends" /\ result.min_growth_rate < 0
  /\ Len(result.rows) = 1 /\ result.rows[1].id = "a"
  /\ okCount["b"] = 1
  /\ RecordOf(trends, "b").growth_rate = Zero
  /\ RecordOf(trends, "b").last_updated > LocalNow - result.hours

\* C28 : suppression is per id, not per channel: once a run of
\* send_breakout_alerts has delivered an id on at least one channel (a
\* successful alert row), no run within the following 6 hours calls either
\* send function for that id, even if the other channel failed; an id that
\* is a breakout and has no successful alert row is tried by the run.
C28_SuppressedPerId ==
  [][AlertRunStep =>
       /\ \A a \in Range(alerts) :
            (a.success /\ now < WrittenAt(a) + SuppressionHours)
              => a.trend_id \notin last'.tried
       /\ \A c \in Range(get_breakout_trends(trends, LocalNow, last'.hours,
                                             last'.min_growth_rate)) :
            (~ \E a \in Range(alerts) : a.trend_id = c.id /\ a.success)
              => c.id \in last'.tried]_vars

\* C29 : in one generate_analytics_report, the store and the clock being the
\* same for all its queries, the 1-hour breakouts are among the 6-hour ones
\* and these among the 24-hour ones; the high, medium and low priority lists
\* are pairwise disjoint and together are the 24-hour list; every entry is a
\* row of get_breakout_trends for its window and minimum, with
\* view_count < 500,000 and a music id that is not empty.
C29_ReportTiersNested ==
  result.op = "generate_analytics_report" =>
    LET b == result.report.breakout_trends
        ar == result.report.ar_alerts
    IN /\ Range(b.h1) \subseteq Range(b.h6)
       /\ Range(b.h6) \subseteq Range(b.h24)
       /\ Range(ar.high_priority) \cap Range(ar.medium_priority) = {}
       /\ Range(ar.high_priority) \cap Range(ar.low_priority) = {}
       /\ Range(ar.medium_priority) \cap Range(ar.low_priority) = {}
       /\ Range(ar.high_priority) \cup Range(ar.medium_priority)
            \cup Range(ar.low_priority) = Range(b.h24)
       /\ Range(b.h1) \subseteq Range(get_breakout_trends(trends, LocalNow, 1, 200))
       /\ Range(b.h6) \subseteq Range(get_breakout_trends(trends, LocalNow, 6, 100))
       /\ Range(b.h24) \subseteq Range(get_breakout_trends(trends, LocalNow, 24, 50))
       /\ \A t \in Range(b.h24) :
            /\ t.view_count < 500000
            /\ Truthy(t.music_id)

\* C29 witness: a report whose only entry is of medium priority: a growth of
\* 220 percent, 3 hours old, in a store of two records
C29_Witness ==
  /\ result.op = "generate_analytics_report"
  /\ result.report.ar_alerts.high_priority = <<>>
  /\ Len(result.report.ar_alerts.medium_priority) = 1
  /\ result.report.ar_alerts.medium_priority[1].last_updated = LocalNow - 3
  /\ FracGt(result.report.ar_alerts.medium_priority[1].growth_rate, 200)
  /\ Len(trends) = 2

\* C29 witness: a breakout of get_breakout_trends with 600,000 views is in
\* no list of the report
C29_WitnessViewCap ==
  /\ result.op = "generate_analytics_report"
  /\ result.report.breakout_trends.h24 = <<>>
  /\ get_breakout_trends(trends, LocalNow, 24, 50) # <<>>
  /\ trends[1].view_count = 600000

\* C30 : the total_trends returned by get_analytics_summary is the number of
\* records the store held at one instant during the call, also when
\* ingestions commit while the call counts the stages: no record is counted
\* under two stages or under none.  (Records are never deleted and a commit
\* adds at most one: the store held every number from that of the first
\* statement, result.first, to that of the last, result.final.)
C30_TotalIsARecordCount ==
  result.op = "get_analytics_summary" =>
    (result.first <= result.summary.total_trends
     /\ result.summary.total_trends <= result.final)

====
